---- MODULE Spec2Model ----
\* A model of the WhatsApp-wrapped transcript pipeline: ChatParser.parse
\* (src/app/infrastructure/parser.py) as a per-line state machine, and the
\* message classifier as an operator over token strings.
\*
\* Strings are sequences of tokens. A token is a TLA+ string standing for
\* exactly that Python substring ("Hola", "<media omitted>", " ", ":"), except
\* the three one-character marks BOM (U+FEFF), LRM (U+200E) and RLM (U+200F),
\* which are written by name. len(), lower(), strip(), split() and the regular
\* expressions are computed token by token as Python computes them on the
\* denoted string; the alphabet is chosen so that every searched substring
\* lies inside a single token.
EXTENDS Integers, Sequences, FiniteSets, TLC

VARIABLES pc, consumed, participant_totals, text_messages, year_counts, current, export_format, last_timestamp, conversation, error, finalized, started, cls_text, cls_format, cls_kind, cls_pc, aggregate, events, sum_stats, sum_context, sum_pc, rm_messages, rm_current, rm_last_timestamp, rm_export_format, rm_pos, rm_pc

vars == <<pc, consumed, participant_totals, text_messages, year_counts, current, export_format, last_timestamp, conversation, error, finalized, started, cls_text, cls_format, cls_kind, cls_pc, aggregate, events, sum_stats, sum_context, sum_pc, rm_messages, rm_current, rm_last_timestamp, rm_export_format, rm_pos, rm_pc>>

parser_vars == <<pc, consumed, participant_totals, text_messages, year_counts, current, export_format, last_timestamp, conversation, error, finalized, started>>

classifier_vars == <<cls_text, cls_format, cls_kind, cls_pc>>

summary_vars == <<aggregate, events, sum_stats, sum_context, sum_pc>>

\* The locals of read_messages, and its position in the file.
reader_vars == <<rm_messages, rm_current, rm_last_timestamp, rm_export_format, rm_pos, rm_pc>>

\* ---------------------------------------------------------------- bounds

\* Number of physical lines of the transcript.
MaxLines == 3

\* Number of tokens of a body handed to the classifier on its own.
MaxClassifyTokens == 2

\* Number of record_event calls that build a Conversation.
MaxEvents == 2

\* ---------------------------------------------------------------- strings

None == "None"

BOM == "BOM"

LRM == "LRM"

RLM == "RLM"

Marks == {BOM, LRM, RLM}

\* str.strip() without arguments removes white space; the marks are not white space.
Whitespace == {" ", "\n"}

\* len(text): code points of the denoted string.
TokenLen(t) == IF t \in Marks THEN 1 ELSE Len(t)

RECURSIVE StrLen(_)
StrLen(s) == IF s = <<>> THEN 0 ELSE TokenLen(Head(s)) + StrLen(Tail(s))

\* str.lower(), token by token.
LowerToken(t) ==
    CASE t = "Hola" -> "hola"
      [] t = "A" -> "a"
      [] t = "B" -> "b"
      [] t = "<Media omitted>" -> "<media omitted>"
      [] t = "<Video note omitted>" -> "<video note omitted>"
      [] t = "Audio omitted" -> "audio omitted"
      [] t = "Sticker omitted" -> "sticker omitted"
      [] t = "<attached: a.MP4>" -> "<attached: a.mp4>"
      [] t = "IMG.JPG (file attached)" -> "img.jpg (file attached)"
      [] t = "Created this group" -> "created this group"
      [] t = "MP4" -> "mp4"
      [] t = "JPG" -> "jpg"
      [] t = "Mar" -> "mar"
      [] OTHER -> t

lower(s) == [i \in 1..Len(s) |-> LowerToken(s[i])]

RECURSIVE lstrip(_, _)
lstrip(s, chars) == IF s # <<>> /\ Head(s) \in chars THEN lstrip(Tail(s), chars) ELSE s

RECURSIVE rstrip(_, _)
rstrip(s, chars) == IF s # <<>> /\ s[Len(s)] \in chars THEN rstrip(SubSeq(s, 1, Len(s) - 1), chars) ELSE s

strip(s, chars) == rstrip(lstrip(s, chars), chars)

\* The searched substrings that occur in a (lower-cased) token.
Fragments(t) ==
    CASE t = "audio omitted" -> {"audio omit"}
      [] t = "nota de voz" -> {"nota de voz"}
      [] t = "<view once voice message omitted>" -> {"<view once voice message omitted>"}
      [] t = "<video note omitted>" -> {"<video note omitted>"}
      [] t = "<media omitted>" -> {"<media omitted>"}
      [] t = "sticker omitted" -> {"sticker omit"}
      [] t = "created this group" -> {"created this group"}
      [] t = "pinned a message" -> {"pinned a message"}
      [] t = ":" -> {":"}
      [] OTHER -> {}

\* needle in text
StrContains(needle, text) == \E i \in 1..Len(text) : needle \in Fragments(text[i])

\* f"{a}\n{b}"
JoinNewline(a, b) == a \o <<"\n">> \o b

\* ---------------------------------------------------------------- timestamps

\* The date/time texts of the modelled transcripts, as "date_str, time_str".
T0 == "31/12/2023, 23:59"

T1 == "01/01/2024, 09:15"

T2 == "01/01/24, 09:16:30"

TBAD == "31/02/2024, 09:15"

\* Tokens matching \d{1,2}/\d{1,2}/\d{2,4},\s+\d{1,2}:\d{2}(?::\d{2})?
DateTokens == {T0, T1, T2, TBAD}

\* The decimal fields of a date/time text (match.groups()[:2]).
DateFields(t) ==
    CASE t = T0 -> [day |-> 31, month |-> 12, year |-> 2023, year_digits |-> 4, hour |-> 23, minute |-> 59, has_seconds |-> FALSE, second |-> 0]
      [] t = T1 -> [day |-> 1, month |-> 1, year |-> 2024, year_digits |-> 4, hour |-> 9, minute |-> 15, has_seconds |-> FALSE, second |-> 0]
      [] t = T2 -> [day |-> 1, month |-> 1, year |-> 24, year_digits |-> 2, hour |-> 9, minute |-> 16, has_seconds |-> TRUE, second |-> 30]
      [] t = TBAD -> [day |-> 31, month |-> 2, year |-> 2024, year_digits |-> 4, hour |-> 9, minute |-> 15, has_seconds |-> FALSE, second |-> 0]

\* "%d/%m/%Y %H:%M:%S", "%d/%m/%Y %H:%M", "%d/%m/%y %H:%M:%S", "%d/%m/%y %H:%M"
patterns == <<[year_digits |-> 4, seconds |-> TRUE], [year_digits |-> 4, seconds |-> FALSE], [year_digits |-> 2, seconds |-> TRUE], [year_digits |-> 2, seconds |-> FALSE]>>

IsLeap(y) == (y % 4 = 0 /\ y % 100 # 0) \/ y % 400 = 0

DaysInMonth(y, m) == IF m = 2 THEN (IF IsLeap(y) THEN 29 ELSE 28) ELSE IF m \in {4, 6, 9, 11} THEN 30 ELSE 31

\* %y: 69..99 are 1969..1999, 0..68 are 2000..2068; %Y takes exactly four digits.
FullYear(f) == IF f.year_digits = 4 THEN f.year ELSE IF f.year >= 69 THEN 1900 + f.year ELSE 2000 + f.year

\* datetime.strptime(joined, pattern) succeeds.
StrptimeMatches(f, p) ==
    /\ f.year_digits = p.year_digits
    /\ f.has_seconds = p.seconds
    /\ f.month \in 1..12
    /\ f.day \in 1..DaysInMonth(FullYear(f), f.month)
    /\ f.hour \in 0..23
    /\ f.minute \in 0..59
    /\ f.second \in 0..59

\* parse_timestamp raises ValueError: none of the four patterns applies.
TimestampRaises(t) == \A i \in 1..Len(patterns) : ~StrptimeMatches(DateFields(t), patterns[i])

\* parse_timestamp's datetime, for a text that does not raise.
parse_timestamp(t) ==
    LET f == DateFields(t)
    IN [year |-> FullYear(f), month |-> f.month, day |-> f.day, hour |-> f.hour, minute |-> f.minute, second |-> f.second]

AsTuple(d) == <<d.year, d.month, d.day, d.hour, d.minute, d.second>>

RECURSIVE TupleLess(_, _)
TupleLess(a, b) == IF a = <<>> THEN FALSE ELSE IF Head(a) # Head(b) THEN Head(a) < Head(b) ELSE TupleLess(Tail(a), Tail(b))

\* datetime a < datetime b
DatetimeLess(a, b) == TupleLess(AsTuple(a), AsTuple(b))

\* ---------------------------------------------------------------- timestamp matcher

NoMatch == [matched |-> FALSE, date |-> None, rest |-> <<>>]

\* The text after a leading run of \s characters.
SkipSpaces(s) == lstrip(s, {" "})

\* ^\s*\[(date),\s+(time)\]\s+(.*)
IOS_TIMESTAMP_RE(line) ==
    LET s == SkipSpaces(line)
    IN IF Len(s) >= 4 /\ s[1] = "[" /\ s[2] \in DateTokens /\ s[3] = "]" /\ s[4] = " "
       THEN [matched |-> TRUE, date |-> s[2], rest |-> SkipSpaces(SubSeq(s, 5, Len(s)))]
       ELSE NoMatch

\* ^\s*(date),\s+(time)\s+-\s+(.*)
ANDROID_TIMESTAMP_RE(line) ==
    LET s == SkipSpaces(line)
        afterDate == IF s = <<>> THEN <<>> ELSE SkipSpaces(Tail(s))
        afterDash == IF afterDate = <<>> THEN <<>> ELSE Tail(afterDate)
    IN IF /\ Len(s) >= 4
          /\ s[1] \in DateTokens
          /\ s[2] = " "
          /\ afterDate # <<>>
          /\ Head(afterDate) = "-"
          /\ afterDash # <<>>
          /\ Head(afterDash) = " "
       THEN [matched |-> TRUE, date |-> s[1], rest |-> SkipSpaces(afterDash)]
       ELSE NoMatch

\* _match_timestamp trying both patterns whatever the locked format.
_match_timestamp_bothTried(line, fmt) ==
    LET ios == IOS_TIMESTAMP_RE(line)
        android == IF ~ios.matched THEN ANDROID_TIMESTAMP_RE(line) ELSE NoMatch
    IN IF ios.matched THEN [match |-> ios, matched_format |-> "ios"]
       ELSE IF android.matched THEN [match |-> android, matched_format |-> "android"]
       ELSE [match |-> NoMatch, matched_format |-> None]

\* _match_timestamp that forgets to name the format of an Android match.
_match_timestamp_androidUnnamed(line, fmt) ==
    LET ios == IF fmt \in {None, "ios"} THEN IOS_TIMESTAMP_RE(line) ELSE NoMatch
        android == IF ~ios.matched /\ fmt \in {None, "android"} THEN ANDROID_TIMESTAMP_RE(line) ELSE NoMatch
    IN IF ios.matched THEN [match |-> ios, matched_format |-> "ios"]
       ELSE IF android.matched THEN [match |-> android, matched_format |-> None]
       ELSE [match |-> NoMatch, matched_format |-> None]

\* _match_timestamp trying the Android pattern whatever the locked format.
_match_timestamp_androidAlways(line, fmt) ==
    LET ios == IF fmt \in {None, "ios"} THEN IOS_TIMESTAMP_RE(line) ELSE NoMatch
        android == IF ~ios.matched THEN ANDROID_TIMESTAMP_RE(line) ELSE NoMatch
    IN IF ios.matched THEN [match |-> ios, matched_format |-> "ios"]
       ELSE IF android.matched THEN [match |-> android, matched_format |-> "android"]
       ELSE [match |-> NoMatch, matched_format |-> None]

\* ChatParser._match_timestamp: the match and the matched format.
_match_timestamp(line, fmt) ==
    LET ios == IF fmt \in {None, "ios"} THEN IOS_TIMESTAMP_RE(line) ELSE NoMatch
        android == IF ~ios.matched /\ fmt \in {None, "android"} THEN ANDROID_TIMESTAMP_RE(line) ELSE NoMatch
    IN IF ios.matched THEN [match |-> ios, matched_format |-> "ios"]
       ELSE IF android.matched THEN [match |-> android, matched_format |-> "android"]
       ELSE [match |-> NoMatch, matched_format |-> None]

\* _should_start_new without the comparison with the last committed timestamp.
_should_start_new_noOrder(match, matched_format, fmt, last) ==
    IF matched_format = None THEN FALSE
    ELSE IF fmt # None /\ matched_format # fmt /\ matched_format = "ios" THEN FALSE
    ELSE TRUE

\* ChatParser._should_start_new, for a match whose date/time text parses.
_should_start_new(match, matched_format, fmt, last) ==
    IF matched_format = None THEN FALSE
    ELSE IF last # <<>> /\ DatetimeLess(parse_timestamp(match.date), last[1]) THEN FALSE
    ELSE IF fmt # None /\ matched_format # fmt /\ matched_format = "ios" THEN FALSE
    ELSE TRUE

\* ---------------------------------------------------------------- classifier

TEXT == "MessageKind.TEXT"

VOICE == "MessageKind.VOICE"

VIDEO == "MessageKind.VIDEO"

VIDEO_NOTE == "MessageKind.VIDEO_NOTE"

PHOTO == "MessageKind.PHOTO"

STICKER == "MessageKind.STICKER"

MessageKind == {TEXT, VOICE, VIDEO, VIDEO_NOTE, PHOTO, STICKER}

MEDIA_PLACEHOLDER == "<media omitted>"

VIDEO_NOTE_PLACEHOLDER == "<video note omitted>"

VOICE_ONCE_PLACEHOLDER == "<view once voice message omitted>"

\* ATTACHED_TAG_RE: group(1) of the match inside a token, None without one.
AttachedTagExt(t) ==
    CASE t = "<attached: a.opus>" -> "opus"
      [] t = "<attached: a.MP4>" -> "MP4"
      [] t = "<attached: a.webp>" -> "webp"
      [] t = "<attached: a.pdf>" -> "pdf"
      [] t = "<attached: a.m4v>" -> "m4v"
      [] t = "<attached: a.gif>" -> "gif"
      [] t = "<attached: a.sticker>" -> "sticker"
      [] OTHER -> None

\* FILE_ATTACHMENT_RE: group(2) of the match inside a token, None without one.
FileAttachmentExt(t) ==
    CASE t = "IMG.JPG (file attached)" -> "JPG"
      [] t = "v.mov (file attached)" -> "mov"
      [] t = "a.txt (file attached)" -> "txt"
      [] t = "b.jpeg (file attached)" -> "jpeg"
      [] t = "b.png (file attached)" -> "png"
      [] OTHER -> None

\* ATTACHED_TAG_RE.search(text): the capture of the leftmost match, None without a match.
RECURSIVE SearchAttachedTag(_)
SearchAttachedTag(text) == IF text = <<>> THEN None ELSE IF AttachedTagExt(Head(text)) # None THEN AttachedTagExt(Head(text)) ELSE SearchAttachedTag(Tail(text))

\* FILE_ATTACHMENT_RE.search(text): the capture of the leftmost match, None without a match.
RECURSIVE SearchFileAttachment(_)
SearchFileAttachment(text) == IF text = <<>> THEN None ELSE IF FileAttachmentExt(Head(text)) # None THEN FileAttachmentExt(Head(text)) ELSE SearchFileAttachment(Tail(text))

\* ChatParser._ext_to_type
_ext_to_type(ext) ==
    IF ext = "opus" THEN "voice"
    ELSE IF ext \in {"mp4", "mov", "m4v"} THEN "video"
    ELSE IF ext \in {"jpg", "jpeg", "png", "gif"} THEN "photo"
    ELSE IF ext \in {"webp", "sticker"} THEN "sticker"
    ELSE None

\* _detect_attachment without lower() on the captured extension.
_detect_attachment_noLower(text) ==
    LET tag == SearchAttachedTag(text)
        file == SearchFileAttachment(text)
    IN IF tag # None THEN _ext_to_type(tag)
       ELSE IF file # None THEN _ext_to_type(file)
       ELSE None

\* ChatParser._detect_attachment
_detect_attachment(text) ==
    LET tag == SearchAttachedTag(text)
        file == SearchFileAttachment(text)
    IN IF tag # None THEN _ext_to_type(LowerToken(tag))
       ELSE IF file # None THEN _ext_to_type(LowerToken(file))
       ELSE None

\* _classify_message without the iOS remap of the video-note placeholder.
_classify_message_noRemap(text, fmt) ==
    LET lowered == lower(text)
        attachment == _detect_attachment(text)
    IN IF StrContains("audio omit", lowered) \/ StrContains("nota de voz", lowered) THEN VOICE
       ELSE IF StrContains(VOICE_ONCE_PLACEHOLDER, lowered) THEN VOICE
       ELSE IF StrContains(VIDEO_NOTE_PLACEHOLDER, lowered) THEN VIDEO_NOTE
       ELSE IF StrContains(MEDIA_PLACEHOLDER, lowered) THEN PHOTO
       ELSE IF attachment = "voice" THEN VOICE
       ELSE IF attachment = "video" THEN VIDEO
       ELSE IF attachment = "video_note" THEN VIDEO_NOTE
       ELSE IF attachment = "photo" THEN PHOTO
       ELSE IF attachment = "sticker" THEN STICKER
       ELSE IF StrContains("sticker omit", lowered) THEN STICKER
       ELSE TEXT

\* _classify_message with the 'sticker omit' rule tried before the media placeholder.
_classify_message_stickerFirst(text, fmt) ==
    LET lowered == lower(text)
        attachment == _detect_attachment(text)
    IN IF StrContains("audio omit", lowered) \/ StrContains("nota de voz", lowered) THEN VOICE
       ELSE IF StrContains(VOICE_ONCE_PLACEHOLDER, lowered) THEN VOICE
       ELSE IF StrContains(VIDEO_NOTE_PLACEHOLDER, lowered) THEN (IF fmt = "ios" THEN VIDEO ELSE VIDEO_NOTE)
       ELSE IF StrContains("sticker omit", lowered) THEN STICKER
       ELSE IF StrContains(MEDIA_PLACEHOLDER, lowered) THEN PHOTO
       ELSE IF attachment = "voice" THEN VOICE
       ELSE IF attachment = "video" THEN VIDEO
       ELSE IF attachment = "video_note" THEN VIDEO_NOTE
       ELSE IF attachment = "photo" THEN PHOTO
       ELSE IF attachment = "sticker" THEN STICKER
       ELSE TEXT

\* _classify_message returning the attachment type string instead of the MessageKind member.
_classify_message_rawAttachment(text, fmt) ==
    LET lowered == lower(text)
        attachment == _detect_attachment(text)
    IN IF StrContains("audio omit", lowered) \/ StrContains("nota de voz", lowered) THEN VOICE
       ELSE IF StrContains(VOICE_ONCE_PLACEHOLDER, lowered) THEN VOICE
       ELSE IF StrContains(VIDEO_NOTE_PLACEHOLDER, lowered) THEN (IF fmt = "ios" THEN VIDEO ELSE VIDEO_NOTE)
       ELSE IF StrContains(MEDIA_PLACEHOLDER, lowered) THEN PHOTO
       ELSE IF attachment # None THEN attachment
       ELSE IF StrContains("sticker omit", lowered) THEN STICKER
       ELSE TEXT

\* ChatParser._classify_message
_classify_message(text, fmt) ==
    LET lowered == lower(text)
        attachment == _detect_attachment(text)
    IN IF StrContains("audio omit", lowered) \/ StrContains("nota de voz", lowered) THEN VOICE
       ELSE IF StrContains(VOICE_ONCE_PLACEHOLDER, lowered) THEN VOICE
       ELSE IF StrContains(VIDEO_NOTE_PLACEHOLDER, lowered) THEN (IF fmt = "ios" THEN VIDEO ELSE VIDEO_NOTE)
       ELSE IF StrContains(MEDIA_PLACEHOLDER, lowered) THEN PHOTO
       ELSE IF attachment = "voice" THEN VOICE
       ELSE IF attachment = "video" THEN VIDEO
       ELSE IF attachment = "video_note" THEN VIDEO_NOTE
       ELSE IF attachment = "photo" THEN PHOTO
       ELSE IF attachment = "sticker" THEN STICKER
       ELSE IF StrContains("sticker omit", lowered) THEN STICKER
       ELSE TEXT

\* ---------------------------------------------------------------- aggregation

SYSTEM_TEXT_MARKERS == {"messages and calls are end-to-end encrypted", "created this group", "added you", "changed this group's icon", "changed this group's description", "changed the subject", "changed this group's subject", "joined using this group's invite link", "pinned a message"}

\* ChatParser._is_system_text
_is_system_text(text) ==
    LET normalized == lower(strip(text, {LRM, RLM, " "}))
    IN \E marker \in SYSTEM_TEXT_MARKERS : StrContains(marker, normalized)

\* ParticipantTotals()
ParticipantTotals == [message_count |-> 0, characters |-> 0, longest_text |-> <<>>, voice_notes |-> 0, videos |-> 0, video_notes |-> 0, photos |-> 0, stickers |-> 0]

\* _record_text assigning the length instead of adding it.
_record_text_assign(stats, text) ==
    LET length == StrLen(text)
    IN [stats EXCEPT !.characters = length, !.longest_text = IF length > StrLen(@) THEN text ELSE @]

\* _record_text replacing the longest text on an equal length too.
_record_text_ge(stats, text) ==
    LET length == StrLen(text)
    IN [stats EXCEPT !.characters = @ + length, !.longest_text = IF length >= StrLen(@) THEN text ELSE @]

\* ChatParser._record_text
_record_text(stats, text) ==
    LET length == StrLen(text)
    IN [stats EXCEPT !.characters = @ + length, !.longest_text = IF length > StrLen(@) THEN text ELSE @]

\* _record_kind adding one to characters as well as to the kind's counter.
_record_kind_countsCharacters(stats, kind) ==
    IF kind = VOICE THEN [stats EXCEPT !.voice_notes = @ + 1, !.characters = @ + 1]
    ELSE IF kind = VIDEO THEN [stats EXCEPT !.videos = @ + 1, !.characters = @ + 1]
    ELSE IF kind = VIDEO_NOTE THEN [stats EXCEPT !.video_notes = @ + 1, !.characters = @ + 1]
    ELSE IF kind = PHOTO THEN [stats EXCEPT !.photos = @ + 1, !.characters = @ + 1]
    ELSE IF kind = STICKER THEN [stats EXCEPT !.stickers = @ + 1, !.characters = @ + 1]
    ELSE stats

\* ChatParser._record_kind
_record_kind(stats, kind) ==
    IF kind = VOICE THEN [stats EXCEPT !.voice_notes = @ + 1]
    ELSE IF kind = VIDEO THEN [stats EXCEPT !.videos = @ + 1]
    ELSE IF kind = VIDEO_NOTE THEN [stats EXCEPT !.video_notes = @ + 1]
    ELSE IF kind = PHOTO THEN [stats EXCEPT !.photos = @ + 1]
    ELSE IF kind = STICKER THEN [stats EXCEPT !.stickers = @ + 1]
    ELSE stats

\* SetDefault storing the default over an entry that is already present.
SetDefault_overwrite(d, key, default) == [k \in DOMAIN d \cup {key} |-> IF k = key THEN default ELSE d[k]]

\* dict.setdefault(key, default) and Counter's missing key: the mapping with the key present.
SetDefault(d, key, default) == IF key \in DOMAIN d THEN d ELSE d @@ (key :> default)

\* _finalize_message without the year bucket's increment.
_finalize_message_noYear(message_data, totals, years, texts, fmt) ==
    LET sender == message_data.sender
        text == message_data.text
        format_hint == IF message_data.format # None THEN message_data.format ELSE fmt
        kind == _classify_message(text, format_hint)
        withSender == SetDefault(totals, sender, ParticipantTotals)
        counted == [withSender EXCEPT ![sender].message_count = @ + 1]
    IN [participant_totals |-> IF kind = TEXT THEN [counted EXCEPT ![sender] = _record_text(@, text)] ELSE [counted EXCEPT ![sender] = _record_kind(@, kind)],
        year_counts |-> years,
        text_messages |-> IF kind = TEXT THEN Append(texts, text) ELSE texts,
        kind |-> kind]

\* ChatParser._finalize_message: the three aggregates after the call, and the kind it assigned.
_finalize_message(message_data, totals, years, texts, fmt) ==
    LET sender == message_data.sender
        text == message_data.text
        timestamp == message_data.timestamp
        format_hint == IF message_data.format # None THEN message_data.format ELSE fmt
        kind == _classify_message(text, format_hint)
        withSender == SetDefault(totals, sender, ParticipantTotals)
        counted == [withSender EXCEPT ![sender].message_count = @ + 1]
        withYear == SetDefault(years, timestamp.year, 0)
    IN [participant_totals |-> IF kind = TEXT THEN [counted EXCEPT ![sender] = _record_text(@, text)] ELSE [counted EXCEPT ![sender] = _record_kind(@, kind)],
        year_counts |-> [withYear EXCEPT ![timestamp.year] = @ + 1],
        text_messages |-> IF kind = TEXT THEN Append(texts, text) ELSE texts,
        kind |-> kind]

\* Participant.create
Participant_create(name, totals) == [name |-> name, message_count |-> totals.message_count, characters |-> totals.characters, longest_text |-> totals.longest_text, voice_notes |-> totals.voice_notes, videos |-> totals.videos, video_notes |-> totals.video_notes, photos |-> totals.photos, stickers |-> totals.stickers]

\* Conversation._normalize_export_format, for the two values parse passes.
_normalize_export_format(value) == IF value = "ios" THEN "ExportFormat.IOS" ELSE "ExportFormat.ANDROID"

\* Conversation.create
Conversation_create(chat_name, participants, years, texts, fmt) == [chat_name |-> chat_name, participants |-> participants, year_counts |-> years, text_messages |-> texts, export_format |-> _normalize_export_format(fmt)]

\* ---------------------------------------------------------------- transcripts

IosLine(date, rest) == <<"[", date, "]", " ">> \o rest

AndroidLine(date, rest) == <<date, " ", "-", " ">> \o rest

Message(sender, text) == <<sender, ":", " ">> \o text

AndroidLines == {
    AndroidLine(T1, Message("A", <<"Hola">>)),
    AndroidLine(T1, Message("A", <<"chau">>)),
    AndroidLine(T2, Message("B", <<"<Media omitted>">>)),
    AndroidLine(T1, Message("B", <<"<video note omitted>">>)),
    AndroidLine(T0, Message("B", <<"ok">>)),
    AndroidLine(T2, <<"joined">>),
    AndroidLine(T2, Message("B", <<"Created this group", " ", "ok">>)),
    AndroidLine(T2, <<"B", ":">>),
    AndroidLine(TBAD, Message("A", <<"ok">>))}

IosLines == {
    IosLine(T1, Message("A", <<"Hola">>)),
    IosLine(T2, Message("B", <<"<video note omitted>">>)),
    IosLine(T0, Message("A", <<"chau">>)),
    IosLine(T2, Message("A", <<"Sticker omitted">>)),
    <<LRM>> \o IosLine(T2, Message("B", <<"ok">>)),
    <<RLM>> \o IosLine(T2, Message("B", <<"ok">>))}

PlainLines == {<<" ", "chau", " ">>, <<"<Media omitted>">>, <<>>, <<" ">>, <<LRM>>}

\* The physical lines a transcript is made of (without the line break).
Lines == AndroidLines \cup IosLines \cup PlainLines

\* ---------------------------------------------------------------- ChatParser.parse

\* The state when parse has opened the file: lines 71-76.
Init ==
    /\ pc = "reading"
    /\ consumed = <<>>
    /\ participant_totals = <<>>
    /\ text_messages = <<>>
    /\ year_counts = <<>>
    /\ current = <<>>
    /\ export_format = None
    /\ last_timestamp = <<>>
    /\ conversation = <<>>
    /\ error = None
    /\ finalized = <<>>
    /\ started = <<>>
    /\ cls_text = <<>>
    /\ cls_format = None
    /\ cls_kind = None
    /\ cls_pc = "idle"
    /\ aggregate = <<>>
    /\ events = <<>>
    /\ sum_stats = <<>>
    /\ sum_context = <<>>
    /\ sum_pc = "idle"
    /\ rm_messages = <<>>
    /\ rm_current = <<>>
    /\ rm_last_timestamp = <<>>
    /\ rm_export_format = None
    /\ rm_pos = 0
    /\ rm_pc = "reading"

\* The record of one _finalize_message call: the message, its kind, the line
\* that started it and the last line read before it was finalized.
FinalizedRecord(message_data, kind, last) == [sender |-> message_data.sender, text |-> message_data.text, timestamp |-> message_data.timestamp, format |-> message_data.format, kind |-> kind, line |-> message_data.line, last |-> last]

\* Lines 91-98 and 125-128: finalize the pending message, if any.
FinalizePending(last) ==
    IF current # <<>>
    THEN LET r == _finalize_message(current[1], participant_totals, year_counts, text_messages, export_format)
         IN /\ participant_totals' = r.participant_totals
            /\ year_counts' = r.year_counts
            /\ text_messages' = r.text_messages
            /\ finalized' = Append(finalized, FinalizedRecord(current[1], r.kind, last))
    ELSE UNCHANGED <<participant_totals, year_counts, text_messages, finalized>>

\* rest.split(":", 1)
FirstColon(rest) == CHOOSE i \in 1..Len(rest) : StrContains(":", <<rest[i]>>) /\ \A j \in 1..(i - 1) : ~StrContains(":", <<rest[j]>>)

\* StartNew with the format locked only after the colon and system-text checks.
StartNew_lockAfterColon(match, matched_format) ==
    LET timestamp == parse_timestamp(match.date)
        rest == match.rest
        locked == IF matched_format # None /\ export_format = None THEN matched_format ELSE export_format
        sender == strip(SubSeq(rest, 1, FirstColon(rest) - 1), Whitespace)
        text == strip(SubSeq(rest, FirstColon(rest) + 1, Len(rest)), Whitespace)
    IN /\ FinalizePending(Len(consumed))
       /\ last_timestamp' = <<timestamp>>
       /\ IF ~StrContains(":", rest) \/ _is_system_text(text)
          THEN current' = <<>> /\ started' = started /\ export_format' = export_format
          ELSE /\ current' = <<[sender |-> sender, text |-> text, timestamp |-> timestamp, format |-> IF matched_format # None THEN matched_format ELSE locked, line |-> Len(consumed) + 1]>>
               /\ started' = Append(started, Len(consumed) + 1)
               /\ export_format' = locked
       /\ UNCHANGED <<pc, conversation, error>>

\* StartNew keeping a line without a colon as a pending message of no sender.
StartNew_noColonPending(match, matched_format) ==
    LET timestamp == parse_timestamp(match.date)
        rest == match.rest
        locked == IF matched_format # None /\ export_format = None THEN matched_format ELSE export_format
        hasColon == StrContains(":", rest)
        sender == IF hasColon THEN strip(SubSeq(rest, 1, FirstColon(rest) - 1), Whitespace) ELSE <<>>
        text == IF hasColon THEN strip(SubSeq(rest, FirstColon(rest) + 1, Len(rest)), Whitespace) ELSE strip(rest, Whitespace)
    IN /\ FinalizePending(Len(consumed))
       /\ export_format' = locked
       /\ last_timestamp' = <<timestamp>>
       /\ IF hasColon /\ _is_system_text(text)
          THEN current' = <<>> /\ started' = started
          ELSE /\ current' = <<[sender |-> sender, text |-> text, timestamp |-> timestamp, format |-> IF matched_format # None THEN matched_format ELSE locked, line |-> Len(consumed) + 1]>>
               /\ started' = Append(started, Len(consumed) + 1)
       /\ UNCHANGED <<pc, conversation, error>>

\* StartNew testing the system markers against the text as written, without lower().
StartNew_caseSensitiveMarkers(match, matched_format) ==
    LET timestamp == parse_timestamp(match.date)
        rest == match.rest
        locked == IF matched_format # None /\ export_format = None THEN matched_format ELSE export_format
        sender == strip(SubSeq(rest, 1, FirstColon(rest) - 1), Whitespace)
        text == strip(SubSeq(rest, FirstColon(rest) + 1, Len(rest)), Whitespace)
    IN /\ FinalizePending(Len(consumed))
       /\ export_format' = locked
       /\ last_timestamp' = <<timestamp>>
       /\ IF ~StrContains(":", rest) \/ (\E marker \in SYSTEM_TEXT_MARKERS : StrContains(marker, strip(text, {LRM, RLM, " "})))
          THEN current' = <<>> /\ started' = started
          ELSE /\ current' = <<[sender |-> sender, text |-> text, timestamp |-> timestamp, format |-> IF matched_format # None THEN matched_format ELSE locked, line |-> Len(consumed) + 1]>>
               /\ started' = Append(started, Len(consumed) + 1)
       /\ UNCHANGED <<pc, conversation, error>>

\* StartNew leaving the last committed timestamp as it was when the line is dropped.
StartNew_dropKeepsTimestamp(match, matched_format) ==
    LET timestamp == parse_timestamp(match.date)
        rest == match.rest
        locked == IF matched_format # None /\ export_format = None THEN matched_format ELSE export_format
        sender == strip(SubSeq(rest, 1, FirstColon(rest) - 1), Whitespace)
        text == strip(SubSeq(rest, FirstColon(rest) + 1, Len(rest)), Whitespace)
    IN /\ FinalizePending(Len(consumed))
       /\ export_format' = locked
       /\ IF ~StrContains(":", rest) \/ _is_system_text(text)
          THEN current' = <<>> /\ started' = started /\ last_timestamp' = last_timestamp
          ELSE /\ current' = <<[sender |-> sender, text |-> text, timestamp |-> timestamp, format |-> IF matched_format # None THEN matched_format ELSE locked, line |-> Len(consumed) + 1]>>
               /\ started' = Append(started, Len(consumed) + 1)
               /\ last_timestamp' = <<timestamp>>
       /\ UNCHANGED <<pc, conversation, error>>

\* StartNew leaving the pending message pending when the line is dropped.
StartNew_dropKeepsPending(match, matched_format) ==
    LET timestamp == parse_timestamp(match.date)
        rest == match.rest
        locked == IF matched_format # None /\ export_format = None THEN matched_format ELSE export_format
        sender == strip(SubSeq(rest, 1, FirstColon(rest) - 1), Whitespace)
        text == strip(SubSeq(rest, FirstColon(rest) + 1, Len(rest)), Whitespace)
    IN /\ FinalizePending(Len(consumed))
       /\ export_format' = locked
       /\ last_timestamp' = <<timestamp>>
       /\ IF ~StrContains(":", rest) \/ _is_system_text(text)
          THEN current' = current /\ started' = started
          ELSE /\ current' = <<[sender |-> sender, text |-> text, timestamp |-> timestamp, format |-> IF matched_format # None THEN matched_format ELSE locked, line |-> Len(consumed) + 1]>>
               /\ started' = Append(started, Len(consumed) + 1)
       /\ UNCHANGED <<pc, conversation, error>>

\* Lines 90-119: the line is accepted as a new message.
StartNew(match, matched_format) ==
    LET timestamp == parse_timestamp(match.date)
        rest == match.rest
        locked == IF matched_format # None /\ export_format = None THEN matched_format ELSE export_format
        sender == strip(SubSeq(rest, 1, FirstColon(rest) - 1), Whitespace)
        text == strip(SubSeq(rest, FirstColon(rest) + 1, Len(rest)), Whitespace)
    IN /\ FinalizePending(Len(consumed))
       /\ export_format' = locked
       /\ last_timestamp' = <<timestamp>>
       /\ IF ~StrContains(":", rest) \/ _is_system_text(text)
          THEN current' = <<>> /\ started' = started
          ELSE /\ current' = <<[sender |-> sender, text |-> text, timestamp |-> timestamp, format |-> IF matched_format # None THEN matched_format ELSE locked, line |-> Len(consumed) + 1]>>
               /\ started' = Append(started, Len(consumed) + 1)
       /\ UNCHANGED <<pc, conversation, error>>

\* Continuation appending the line without trimming it.
Continuation_untrimmed(normalized) ==
    /\ current' = IF current # <<>> /\ normalized # <<>> THEN <<[current[1] EXCEPT !.text = JoinNewline(@, normalized)]>> ELSE current
    /\ UNCHANGED <<pc, participant_totals, text_messages, year_counts, export_format, last_timestamp, conversation, error, finalized, started>>

\* Continuation appending a blank line too, as an empty last line of the body.
Continuation_appendsBlank(normalized) ==
    LET addition == strip(normalized, Whitespace)
    IN /\ current' = IF current # <<>> THEN <<[current[1] EXCEPT !.text = JoinNewline(@, addition)]>> ELSE current
       /\ UNCHANGED <<pc, participant_totals, text_messages, year_counts, export_format, last_timestamp, conversation, error, finalized, started>>

\* Lines 120-123: the line extends the pending message, or is discarded.
Continuation(normalized) ==
    LET addition == strip(normalized, Whitespace)
    IN /\ current' = IF current # <<>> /\ addition # <<>> THEN <<[current[1] EXCEPT !.text = JoinNewline(@, addition)]>> ELSE current
       /\ UNCHANGED <<pc, participant_totals, text_messages, year_counts, export_format, last_timestamp, conversation, error, finalized, started>>

\* parse_timestamp raised: the ValueError leaves parse.
RaiseValueError ==
    /\ pc' = "error"
    /\ error' = "ValueError: Unrecognized date format"
    /\ UNCHANGED <<participant_totals, text_messages, year_counts, current, export_format, last_timestamp, conversation, finalized, started>>

\* Lines 80-81: raw_line.rstrip("\n"), then lstrip("\ufeff\u200e").strip("\ufeff").
Normalized(raw_line) == strip(lstrip(rstrip(raw_line, {"\n"}), {BOM, LRM}), {BOM})

\* ParseLine taking a matched line with an unparseable date/time as a continuation.
ParseLine_skipBadDate(raw_line) ==
    /\ pc = "reading"
    /\ Len(consumed) < MaxLines
    /\ consumed' = Append(consumed, raw_line)
    /\ UNCHANGED classifier_vars
    /\ UNCHANGED reader_vars
    /\ UNCHANGED summary_vars
    /\ LET normalized == Normalized(raw_line)
           m == _match_timestamp(normalized, export_format)
       IN IF m.match.matched /\ ~TimestampRaises(m.match.date) /\ _should_start_new(m.match, m.matched_format, export_format, last_timestamp) THEN StartNew(m.match, m.matched_format)
          ELSE Continuation(normalized)

\* ProcessLine matching and accepting as if no format were locked.
ProcessLine_unlockedMatch(normalized) ==
    LET m == _match_timestamp(normalized, None)
    IN IF m.match.matched /\ TimestampRaises(m.match.date) THEN RaiseValueError
       ELSE IF m.match.matched /\ _should_start_new(m.match, m.matched_format, None, last_timestamp) THEN StartNew(m.match, m.matched_format)
       ELSE Continuation(normalized)

\* Lines 82-123: what the loop body does with the normalized line.
ProcessLine(normalized) ==
    LET m == _match_timestamp(normalized, export_format)
    IN IF m.match.matched /\ TimestampRaises(m.match.date) THEN RaiseValueError
       ELSE IF m.match.matched /\ _should_start_new(m.match, m.matched_format, export_format, last_timestamp) THEN StartNew(m.match, m.matched_format)
       ELSE Continuation(normalized)

\* ParseLine that does not advance in the input: the line is processed, not consumed.
ParseLine_noAdvance(raw_line) ==
    /\ pc = "reading"
    /\ Len(consumed) < MaxLines
    /\ consumed' = consumed
    /\ UNCHANGED classifier_vars
    /\ UNCHANGED reader_vars
    /\ UNCHANGED summary_vars
    /\ ProcessLine(Normalized(raw_line))

\* One iteration of the loop of lines 79-123.
ParseLine(raw_line) ==
    /\ pc = "reading"
    /\ Len(consumed) < MaxLines
    /\ consumed' = Append(consumed, raw_line)
    /\ UNCHANGED classifier_vars
    /\ UNCHANGED reader_vars
    /\ UNCHANGED summary_vars
    /\ ProcessLine(Normalized(raw_line))

\* EndOfStream without the test of the locked format: a Conversation is always built.
EndOfStream_noFormatCheck ==
    /\ pc = "reading"
    /\ FinalizePending(Len(consumed))
    /\ pc' = "returned"
    /\ error' = error
    /\ conversation' = <<Conversation_create("chat", [name \in DOMAIN participant_totals' |-> Participant_create(name, participant_totals'[name])], year_counts', text_messages', export_format)>>
    /\ UNCHANGED <<consumed, current, export_format, last_timestamp, started>>
    /\ UNCHANGED classifier_vars
    /\ UNCHANGED reader_vars
    /\ UNCHANGED summary_vars

\* EndOfStream without the flush of the pending message.
EndOfStream_noFlush ==
    /\ pc = "reading"
    /\ IF export_format = None
       THEN /\ pc' = "error"
            /\ error' = "DomainError: Unable to determine export format from chat transcript"
            /\ conversation' = conversation
       ELSE /\ pc' = "returned"
            /\ error' = error
            /\ conversation' = <<Conversation_create("chat", [name \in DOMAIN participant_totals |-> Participant_create(name, participant_totals[name])], year_counts, text_messages, export_format)>>
    /\ UNCHANGED <<consumed, current, export_format, last_timestamp, started, participant_totals, year_counts, text_messages, finalized>>
    /\ UNCHANGED classifier_vars
    /\ UNCHANGED reader_vars
    /\ UNCHANGED summary_vars

\* EndOfStream raising the DomainError when no participant was found, not when no format was locked.
EndOfStream_errorWithoutParticipants ==
    /\ pc = "reading"
    /\ FinalizePending(Len(consumed))
    /\ IF participant_totals' = <<>>
       THEN /\ pc' = "error"
            /\ error' = "DomainError: Unable to determine export format from chat transcript"
            /\ conversation' = conversation
       ELSE /\ pc' = "returned"
            /\ error' = error
            /\ conversation' = <<Conversation_create("chat", [name \in DOMAIN participant_totals' |-> Participant_create(name, participant_totals'[name])], year_counts', text_messages', export_format)>>
    /\ UNCHANGED <<consumed, current, export_format, last_timestamp, started>>
    /\ UNCHANGED classifier_vars
    /\ UNCHANGED reader_vars
    /\ UNCHANGED summary_vars

\* Lines 125-154: the stream is exhausted.
EndOfStream ==
    /\ pc = "reading"
    /\ FinalizePending(Len(consumed))
    /\ IF export_format = None
       THEN /\ pc' = "error"
            /\ error' = "DomainError: Unable to determine export format from chat transcript"
            /\ conversation' = conversation
       ELSE /\ pc' = "returned"
            /\ error' = error
            /\ conversation' = <<Conversation_create("chat", [name \in DOMAIN participant_totals' |-> Participant_create(name, participant_totals'[name])], year_counts', text_messages', export_format)>>
    /\ UNCHANGED <<consumed, current, export_format, last_timestamp, started>>
    /\ UNCHANGED classifier_vars
    /\ UNCHANGED reader_vars
    /\ UNCHANGED summary_vars

Next ==
    \/ \E l \in Lines : ParseLine(Append(l, "\n"))
    \/ EndOfStream

Spec == Init /\ [][Next]_vars

\* The lines of the transcripts whose runs are followed to their end: a line of
\* each dialect, a stale one, one without a prefix and one with an impossible date.
FairLines == {
    AndroidLine(T1, Message("A", <<"Hola">>)),
    AndroidLine(T0, Message("B", <<"ok">>)),
    AndroidLine(TBAD, Message("A", <<"ok">>)),
    IosLine(T1, Message("A", <<"Hola">>)),
    <<" ", "chau", " ">>}

FairNext ==
    \/ \E l \in FairLines : ParseLine(Append(l, "\n"))
    \/ EndOfStream

\* The input is finite: the file iterator is exhausted after finitely many
\* lines, and the interpreter then runs the code after the loop; nothing in
\* parse waits or yields.
FairSpec == Init /\ [][FairNext]_vars /\ WF_vars(EndOfStream)

\* ---------------------------------------------------------------- the classifier on its own

ClassifyTokens == {"Hola", " ", "Audio omitted", "nota de voz", "<view once voice message omitted>", "<Video note omitted>", "<Media omitted>", "<attached: a.opus>", "<attached: a.MP4>", "<attached: a.webp>", "<attached: a.pdf>", "IMG.JPG (file attached)", "v.mov (file attached)", "a.txt (file attached)", "Sticker omitted", "<attached: a.m4v>", "<attached: a.gif>", "<attached: a.sticker>", "b.jpeg (file attached)", "b.png (file attached)"}

\* The bodies handed to the classifier: every token string of at most MaxClassifyTokens tokens.
ClassifyTexts == UNION {[1..n -> ClassifyTokens] : n \in 0..MaxClassifyTokens}

\* A caller holds a body and a dialect hint (iOS, Android or none).
ClassifyInit ==
    /\ pc = "idle"
    /\ consumed = <<>>
    /\ participant_totals = <<>>
    /\ text_messages = <<>>
    /\ year_counts = <<>>
    /\ current = <<>>
    /\ export_format = None
    /\ last_timestamp = <<>>
    /\ conversation = <<>>
    /\ error = None
    /\ finalized = <<>>
    /\ started = <<>>
    /\ cls_text \in ClassifyTexts
    /\ cls_format \in {None, "ios", "android"}
    /\ cls_kind = None
    /\ cls_pc = "call"
    /\ aggregate = <<>>
    /\ events = <<>>
    /\ sum_stats = <<>>
    /\ sum_context = <<>>
    /\ sum_pc = "idle"
    /\ rm_messages = <<>>
    /\ rm_current = <<>>
    /\ rm_last_timestamp = <<>>
    /\ rm_export_format = None
    /\ rm_pos = 0
    /\ rm_pc = "idle"

\* The call _classify_message(text, export_format).
Classify ==
    /\ cls_pc = "call"
    /\ cls_kind' = _classify_message(cls_text, cls_format)
    /\ cls_pc' = "done"
    /\ UNCHANGED <<cls_text, cls_format>>
    /\ UNCHANGED parser_vars
    /\ UNCHANGED summary_vars
    /\ UNCHANGED reader_vars

ClassifyNext == Classify

ClassifySpec == ClassifyInit /\ [][ClassifyNext]_vars

\* ---------------------------------------------------------------- the aggregate of domain/models.py

\* The sum of f over the keys S.
RECURSIVE SumOver(_, _)
SumOver(f, S) == IF S = {} THEN 0 ELSE LET x == CHOOSE y \in S : TRUE IN f[x] + SumOver(f, S \ {x})

\* ParticipantStats(name=name)
ParticipantStats(name) == [name |-> name, message_count |-> 0, characters |-> 0, longest_text_length |-> 0, longest_text |-> <<>>, voice_notes |-> 0, videos |-> 0, video_notes |-> 0, photos |-> 0, stickers |-> 0]

\* ParticipantStats.record_text
record_text(self, text) ==
    LET length == StrLen(text)
    IN [self EXCEPT !.characters = @ + length, !.longest_text_length = IF length > @ THEN length ELSE @, !.longest_text = IF length > self.longest_text_length THEN text ELSE @]

\* ParticipantStats.record_kind
record_kind(self, kind) ==
    IF kind = VOICE THEN [self EXCEPT !.voice_notes = @ + 1]
    ELSE IF kind = VIDEO THEN [self EXCEPT !.videos = @ + 1]
    ELSE IF kind = VIDEO_NOTE THEN [self EXCEPT !.video_notes = @ + 1]
    ELSE IF kind = PHOTO THEN [self EXCEPT !.photos = @ + 1]
    ELSE IF kind = STICKER THEN [self EXCEPT !.stickers = @ + 1]
    ELSE self

\* Conversation(chat_name=chat_name) of domain/models.py, with its field defaults.
Conversation(chat_name) == [chat_name |-> chat_name, participants |-> <<>>, year_counts |-> <<>>, text_messages |-> <<>>, export_format |-> "", total_messages |-> 0]

\* Conversation.get_participant: the conversation with the participant present.
get_participant(self, name) == [self EXCEPT !.participants = SetDefault(@, name, ParticipantStats(name))]

\* record_event without the increment of the conversation's total_messages.
record_event_noTotal(self, sender, timestamp, text, kind) ==
    LET got == get_participant(self, sender)
        counted == [got EXCEPT !.participants[sender].message_count = @ + 1, !.year_counts = [SetDefault(@, timestamp.year, 0) EXCEPT ![timestamp.year] = @ + 1]]
    IN IF kind = TEXT
       THEN [counted EXCEPT !.participants[sender] = record_text(@, text), !.text_messages = IF text # <<>> THEN Append(@, text) ELSE @]
       ELSE [counted EXCEPT !.participants[sender] = record_kind(@, kind)]

\* Conversation.record_event
record_event(self, sender, timestamp, text, kind) ==
    LET got == get_participant(self, sender)
        counted == [got EXCEPT !.participants[sender].message_count = @ + 1, !.total_messages = @ + 1, !.year_counts = [SetDefault(@, timestamp.year, 0) EXCEPT ![timestamp.year] = @ + 1]]
    IN IF kind = TEXT
       THEN [counted EXCEPT !.participants[sender] = record_text(@, text), !.text_messages = IF text # <<>> THEN Append(@, text) ELSE @]
       ELSE [counted EXCEPT !.participants[sender] = record_kind(@, kind)]

\* The bodies of the recorded Text events.
SolMar == <<"sol", " ", "mar">>

MarLuz == <<"Mar", " ", "lu", "z", " ", "de", " ", "ok", " ", "que">>

Event(sender, date, text, kind) == [sender |-> <<sender>>, timestamp |-> parse_timestamp(date), text |-> text, kind |-> kind]

\* The record_event calls a caller makes: three senders, two years, every kind,
\* Text bodies with and without words, and the empty Text body.
RecordEvents == {
    Event("A", T1, SolMar, TEXT),
    Event("A", T1, <<>>, TEXT),
    Event("A", T0, <<"<Media omitted>">>, PHOTO),
    Event("A", T1, <<"Audio omitted">>, VOICE),
    Event("A", T1, <<"Sticker omitted">>, STICKER),
    Event("A", T1, <<"<attached: a.MP4>">>, VIDEO),
    Event("B", T0, SolMar, TEXT),
    Event("B", T1, MarLuz, TEXT),
    Event("B", T1, <<"<Media omitted>">>, PHOTO),
    Event("B", T1, <<"Audio omitted">>, VOICE),
    Event("B", T1, <<"Sticker omitted">>, STICKER),
    Event("B", T1, <<"<Video note omitted>">>, VIDEO_NOTE),
    Event("N/A", T1, MarLuz, TEXT),
    Event("N/A", T1, <<"Audio omitted">>, VOICE),
    Event("N/A", T1, <<"Sticker omitted">>, STICKER),
    Event("N/A", T0, <<"<Media omitted>">>, PHOTO)}

\* A caller has constructed an empty Conversation.
SummaryInit ==
    /\ pc = "idle"
    /\ consumed = <<>>
    /\ participant_totals = <<>>
    /\ text_messages = <<>>
    /\ year_counts = <<>>
    /\ current = <<>>
    /\ export_format = None
    /\ last_timestamp = <<>>
    /\ conversation = <<>>
    /\ error = None
    /\ finalized = <<>>
    /\ started = <<>>
    /\ cls_text = <<>>
    /\ cls_format = None
    /\ cls_kind = None
    /\ cls_pc = "idle"
    /\ aggregate = Conversation("chat")
    /\ events = <<>>
    /\ sum_stats = <<>>
    /\ sum_context = <<>>
    /\ sum_pc = "building"
    /\ rm_messages = <<>>
    /\ rm_current = <<>>
    /\ rm_last_timestamp = <<>>
    /\ rm_export_format = None
    /\ rm_pos = 0
    /\ rm_pc = "idle"

\* The call conversation.record_event(sender, timestamp, text, kind).
RecordEvent(e) ==
    /\ sum_pc = "building"
    /\ Len(events) < MaxEvents
    /\ aggregate' = record_event(aggregate, e.sender, e.timestamp, e.text, e.kind)
    /\ events' = Append(events, e)
    /\ UNCHANGED <<sum_stats, sum_context, sum_pc>>
    /\ UNCHANGED parser_vars
    /\ UNCHANGED classifier_vars
    /\ UNCHANGED reader_vars

\* ---------------------------------------------------------------- ConversationSummarizer

\* STOPWORDS, lines 9-210. The 26 entries with an accented letter are left out:
\* no modelled token has one.
STOPWORDS == {
    "de", "la", "que", "el", "en", "y", "a", "los", "del", "se", "las", "por", "un", "para", "con", "no",
    "una", "su", "al", "lo", "como", "pero", "sus", "le", "ya", "o", "este", "porque", "esta", "entre",
    "cuando", "muy", "sin", "sobre", "me", "hasta", "hay", "donde", "quien", "desde", "todo", "nos",
    "durante", "todos", "uno", "les", "ni", "contra", "otros", "ese", "eso", "ante", "ellos", "e", "esto",
    "antes", "algunos", "unos", "yo", "otro", "otras", "otra", "tanto", "esa", "estos", "mucho", "quienes",
    "nada", "muchos", "cual", "poco", "ella", "estar", "estas", "algunas", "algo", "nosotros", "mi", "mis",
    "te", "ti", "tu", "tus", "ellas", "nosotras", "vosotros", "vosotras", "os", "tuyo", "tuya", "tuyos",
    "tuyas", "suyo", "suya", "suyos", "suyas", "nuestro", "nuestra", "nuestros", "nuestras", "vuestro",
    "vuestra", "vuestros", "vuestras", "esos", "esas", "estoy", "estamos", "estemos", "estaremos", "fue",
    "fueron", "fui", "fuimos", "son", "es", "ser", "era", "puede", "puedo", "the", "and", "for", "that",
    "this", "are", "was", "were", "will", "with", "you", "your", "they", "them", "have", "has", "had",
    "from", "not", "but", "about", "their", "there", "can", "could", "would", "should", "it's", "its", "i'm",
    "i'll", "i've", "we", "our", "ours", "be", "is", "to", "in", "of", "on", "as", "it", "at", "by", "or",
    "if", "so", "do", "did", "does", "am", "an"}

\* Tokens made of letters only ([A-Za-z\u00C0-\u017F]+ matches the whole token).
LetterTokens == {"sol", "mar", "Mar", "lu", "z", "luz", "de", "ok", "que", "Hola", "hola", "chau", "A", "a", "B", "b"}

\* The letter runs inside a token that begins and ends with a non-letter;
\* none for a token without letters.
InnerWords(t) ==
    CASE t = "<media omitted>" -> <<"media", "omitted">>
      [] t = "<video note omitted>" -> <<"video", "note", "omitted">>
      [] OTHER -> <<>>

\* re.findall(r"[A-Za-z\u00C0-\u017F]+", text): `run` is the run of letters that
\* ends where `text` begins; adjacent letter tokens form one run.
RECURSIVE FindWords(_, _)
FindWords(text, run) ==
    LET closed == IF run = "" THEN <<>> ELSE <<run>>
    IN IF text = <<>> THEN closed
       ELSE IF Head(text) \in LetterTokens THEN FindWords(Tail(text), run \o Head(text))
       ELSE closed \o InnerWords(Head(text)) \o FindWords(Tail(text), "")

\* tokenize without the stop-word filter.
tokenize_keepStopwords(text) == SelectSeq(FindWords(lower(text), ""), LAMBDA word : Len(word) > 2)

\* tokenize, lines 213-215
tokenize(text) == SelectSeq(FindWords(lower(text), ""), LAMBDA word : word \notin STOPWORDS /\ Len(word) > 2)

\* A Counter is the sequence of its (key, count) items in insertion order.
CounterKeys(counter) == {counter[i][1] : i \in 1..Len(counter)}

\* Counter.update(iterable): each element adds one to its count, a new key is inserted last.
RECURSIVE CounterUpdate(_, _)
CounterUpdate(counter, words) ==
    IF words = <<>> THEN counter
    ELSE LET w == Head(words)
             next == IF w \in CounterKeys(counter)
                     THEN [i \in 1..Len(counter) |-> IF counter[i][1] = w THEN <<w, counter[i][2] + 1>> ELSE counter[i]]
                     ELSE Append(counter, <<w, 1>>)
         IN CounterUpdate(next, Tail(words))

\* Lines 258-260: the word counts of the whole corpus.
RECURSIVE WordCounter(_, _)
WordCounter(counter, texts) == IF texts = <<>> THEN counter ELSE WordCounter(CounterUpdate(counter, tokenize(Head(texts))), Tail(texts))

\* The sequence without its i-th element.
RemoveAt(seq, i) == SubSeq(seq, 1, i - 1) \o SubSeq(seq, i + 1, Len(seq))

\* most_common taking, among items of equal count, the one inserted last.
RECURSIVE most_common_lastInserted(_, _)
most_common_lastInserted(counter, n) ==
    IF n <= 0 \/ counter = <<>> THEN <<>>
    ELSE LET i == CHOOSE k \in 1..Len(counter) : (\A j \in 1..Len(counter) : counter[j][2] <= counter[k][2]) /\ (\A j \in (k + 1)..Len(counter) : counter[j][2] < counter[k][2])
         IN <<counter[i]>> \o most_common_lastInserted(RemoveAt(counter, i), n - 1)

\* Counter.most_common(n) = heapq.nlargest(n, items, key=count): the n items of
\* highest count, highest first, items of equal count in insertion order.
RECURSIVE most_common(_, _)
most_common(counter, n) ==
    IF n <= 0 \/ counter = <<>> THEN <<>>
    ELSE LET i == CHOOSE k \in 1..Len(counter) : (\A j \in 1..Len(counter) : counter[j][2] <= counter[k][2]) /\ (\A j \in 1..(k - 1) : counter[j][2] < counter[k][2])
         IN <<counter[i]>> \o most_common(RemoveAt(counter, i), n - 1)

\* getattr(obj, attr) succeeds.
HasAttr(obj, attr) == attr \in DOMAIN obj

\* ConversationSummarizer.collect(attr), for an attribute every participant has.
collect(participants, attr) == [name \in DOMAIN participants |-> participants[name][attr]]

\* sum(d.values())
SumValues(d) == SumOver(d, DOMAIN d)

\* ConversationSummarizer.summarize: the SummaryStats, or the AttributeError
\* raised by the first attribute read that the object does not have.
summarize(conv, top_n) ==
    LET participants == conv.participants
    IN IF \E name \in DOMAIN participants : ~HasAttr(participants[name], "longest_text_length")
       THEN [raised |-> "AttributeError: 'Participant' object has no attribute 'longest_text_length'"]
       ELSE IF ~HasAttr(conv, "total_messages")
       THEN [raised |-> "AttributeError: 'Conversation' object has no attribute 'total_messages'"]
       ELSE [raised |-> None,
             total_messages |-> conv.total_messages,
             messages_by_year |-> conv.year_counts,
             messages_by_person |-> collect(participants, "message_count"),
             voice_total |-> SumValues(collect(participants, "voice_notes")),
             voice_by_person |-> collect(participants, "voice_notes"),
             video_total |-> SumValues(collect(participants, "videos")),
             video_by_person |-> collect(participants, "videos"),
             video_note_total |-> SumValues(collect(participants, "video_notes")),
             video_note_by_person |-> collect(participants, "video_notes"),
             photo_total |-> SumValues(collect(participants, "photos")),
             photo_by_person |-> collect(participants, "photos"),
             sticker_total |-> SumValues(collect(participants, "stickers")),
             sticker_by_person |-> collect(participants, "stickers"),
             char_by_person |-> collect(participants, "characters"),
             longest_text_by_person |-> collect(participants, "longest_text_length"),
             longest_text_content |-> collect(participants, "longest_text"),
             total_characters |-> SumValues(collect(participants, "characters")),
             top_words |-> most_common(WordCounter(<<>>, conv.text_messages), top_n),
             export_format |-> conv.export_format]

\* ---------------------------------------------------------------- build_summary_context

\* The code points of the tokens that occur in sender names.
CodePoints(t) ==
    CASE t = "A" -> <<65>>
      [] t = "B" -> <<66>>
      [] t = "N/A" -> <<78, 47, 65>>
      [] t = " " -> <<32>>

RECURSIVE StrCodePoints(_)
StrCodePoints(s) == IF s = <<>> THEN <<>> ELSE CodePoints(Head(s)) \o StrCodePoints(Tail(s))

RECURSIVE SeqLess(_, _)
SeqLess(a, b) == IF b = <<>> THEN FALSE ELSE IF a = <<>> THEN TRUE ELSE IF Head(a) # Head(b) THEN Head(a) < Head(b) ELSE SeqLess(Tail(a), Tail(b))

\* str a < str b
StrLess(a, b) == SeqLess(StrCodePoints(a), StrCodePoints(b))

NA == <<"N/A">>

\* _top_person: the first item of sorted(counter.items(), key=(-value, name)).
_top_person(counter) ==
    IF DOMAIN counter = {} THEN <<NA, 0>>
    ELSE LET top == CHOOSE k \in DOMAIN counter : \A j \in DOMAIN counter \ {k} : counter[k] > counter[j] \/ (counter[k] = counter[j] /\ StrLess(k, j))
         IN <<top, counter[top]>>

\* category_configs, lines 109-115: label and the SummaryStats map it reads.
category_configs == <<[label |-> "Yapper", counter |-> "voice_by_person"], [label |-> "Writer", counter |-> "longest_text_by_person"], [label |-> "Sticky", counter |-> "sticker_by_person"], [label |-> "Photographer", counter |-> "photo_by_person"], [label |-> "Texter", counter |-> "char_by_person"]>>

NoData == <<"No data">>

\* The separator of the share values (a middle dot, U+00B7, between spaces), written in ASCII.
MIDDOT == " . "

\* Lines 119-132: the share value of one category.
share_value(label, person, value) ==
    IF person = NA \/ value = 0 THEN NoData
    ELSE IF label = "Writer" THEN person \o <<MIDDOT, "Longest message: ", ToString(value), " characters">>
    ELSE IF label = "Texter" THEN person \o <<MIDDOT, ToString(value), " characters typed">>
    ELSE IF label = "Yapper" THEN person \o <<MIDDOT, ToString(value), " voice notes">>
    ELSE IF label = "Sticky" THEN person \o <<MIDDOT, ToString(value), " stickers">>
    ELSE person \o <<MIDDOT, ToString(value), " photos">>

\* build_summary_context: the "highlights" (share_stats) of the returned context.
build_summary_context(result, filename) ==
    [filename |-> filename,
     highlights |-> [i \in 1..Len(category_configs) |->
        LET top == _top_person(result[category_configs[i].counter])
        IN [label |-> category_configs[i].label, value |-> share_value(category_configs[i].label, top[1], top[2])]]]

\* The values of top_n a caller passes; 20 is the default and handle_upload's argument.
TopNs == {1, 2, 20}

\* Summarize with a summarize() that consumes the corpus it counted.
Summarize_consuming(top_n) ==
    /\ sum_pc \in {"building", "summarized"}
    /\ Len(sum_stats) < 2
    /\ sum_stats' = Append(sum_stats, [top_n |-> top_n, result |-> summarize(aggregate, top_n)])
    /\ sum_context' = <<build_summary_context(summarize(aggregate, top_n), "chat.txt")>>
    /\ sum_pc' = "summarized"
    /\ aggregate' = [aggregate EXCEPT !.text_messages = <<>>]
    /\ UNCHANGED events
    /\ UNCHANGED parser_vars
    /\ UNCHANGED classifier_vars
    /\ UNCHANGED reader_vars

\* A caller summarizes the conversation as handle_upload does, lines 287-288:
\* stats = summarize(conversation, top_n); summary = build_summary_context(stats, name).
Summarize(top_n) ==
    /\ sum_pc \in {"building", "summarized"}
    /\ Len(sum_stats) < 2
    /\ sum_stats' = Append(sum_stats, [top_n |-> top_n, result |-> summarize(aggregate, top_n)])
    /\ sum_context' = <<build_summary_context(summarize(aggregate, top_n), "chat.txt")>>
    /\ sum_pc' = "summarized"
    /\ UNCHANGED <<aggregate, events>>
    /\ UNCHANGED parser_vars
    /\ UNCHANGED classifier_vars
    /\ UNCHANGED reader_vars

SummaryNext ==
    \/ \E e \in RecordEvents : RecordEvent(e)
    \/ \E top_n \in TopNs : Summarize(top_n)

SummarySpec == SummaryInit /\ [][SummaryNext]_vars

\* ---------------------------------------------------------------- handle_upload

\* handle_upload, lines 287-288, once parse has returned: the Conversation parse
\* built is summarized with top_n=20 and the context is built from the result;
\* an exception leaves through the handler's except clause.
HandleUploadSummarize ==
    /\ pc = "returned"
    /\ LET result == summarize(conversation[1], 20)
       IN IF result.raised # None
          THEN /\ pc' = "error"
               /\ error' = result.raised
               /\ UNCHANGED <<sum_stats, sum_context>>
          ELSE /\ pc' = "summarized"
               /\ error' = error
               /\ sum_stats' = <<[top_n |-> 20, result |-> result]>>
               /\ sum_context' = <<build_summary_context(result, "chat.txt")>>
    /\ UNCHANGED <<consumed, participant_totals, text_messages, year_counts, current, export_format, last_timestamp, conversation, finalized, started>>
    /\ UNCHANGED <<aggregate, events, sum_pc>>
    /\ UNCHANGED classifier_vars
    /\ UNCHANGED reader_vars

PipelineNext ==
    \/ \E l \in Lines : ParseLine(Append(l, "\n"))
    \/ EndOfStream
    \/ HandleUploadSummarize

PipelineSpec == Init /\ [][PipelineNext]_vars

\* ---------------------------------------------------------------- read_messages (summarize_chat.py)

\* summarize_chat.py defines IOS_TIMESTAMP_RE, ANDROID_TIMESTAMP_RE,
\* SYSTEM_TEXT_MARKERS and parse_timestamp with the same text as parser.py; the
\* operators of those names stand for both.

\* Lines 269-279: the match and the matched format, tried under the reader's lock.
read_messages_match(line, fmt) ==
    LET ios == IF fmt \in {None, "ios"} THEN IOS_TIMESTAMP_RE(line) ELSE NoMatch
        android == IF ~ios.matched /\ fmt \in {None, "android"} THEN ANDROID_TIMESTAMP_RE(line) ELSE NoMatch
    IN IF ios.matched THEN [match |-> ios, matched_format |-> "ios"]
       ELSE IF android.matched THEN [match |-> android, matched_format |-> "android"]
       ELSE [match |-> NoMatch, matched_format |-> None]

\* Lines 296-320: the line starts a new message; the pending one is emitted.
ReaderStartNew(match, matched_format, locked) ==
    LET timestamp == parse_timestamp(match.date)
        rest == match.rest
        sender == strip(SubSeq(rest, 1, FirstColon(rest) - 1), Whitespace)
        text == strip(SubSeq(rest, FirstColon(rest) + 1, Len(rest)), Whitespace)
        normalized_text == lower(strip(text, {LRM, RLM, " "}))
    IN /\ rm_messages' = IF rm_current # <<>> THEN Append(rm_messages, rm_current[1]) ELSE rm_messages
       /\ rm_last_timestamp' = <<timestamp>>
       /\ IF ~StrContains(":", rest) \/ (\E marker \in SYSTEM_TEXT_MARKERS : StrContains(marker, normalized_text))
          THEN rm_current' = <<>>
          ELSE rm_current' = <<[datetime |-> timestamp, sender |-> sender, text |-> text, format |-> IF matched_format # None THEN matched_format ELSE locked]>>

\* Lines 321-330: the line extends the pending message, or is discarded.
ReaderContinuation(normalized) ==
    LET addition == strip(normalized, Whitespace)
    IN /\ rm_current' = IF rm_current = <<>> \/ addition = <<>> THEN rm_current
                        ELSE IF rm_current[1].text # <<>> THEN <<[rm_current[1] EXCEPT !.text = JoinNewline(@, addition)]>>
                        ELSE <<[rm_current[1] EXCEPT !.text = addition]>>
       /\ UNCHANGED <<rm_messages, rm_last_timestamp>>

\* One iteration of the loop of lines 266-330, on the next line of the file.
\* The file is the one parse reads: its lines are those in `consumed`.
ReadMessagesLine ==
    /\ rm_pc = "reading"
    /\ rm_pos < Len(consumed)
    /\ rm_pos' = rm_pos + 1
    /\ LET normalized == Normalized(consumed[rm_pos + 1])
           m == read_messages_match(normalized, rm_export_format)
           locked == IF rm_export_format = None /\ m.matched_format # None THEN m.matched_format ELSE rm_export_format
       IN /\ rm_export_format' = locked
          /\ IF m.match.matched /\ TimestampRaises(m.match.date)
             THEN /\ rm_pc' = "error"
                  /\ UNCHANGED <<rm_messages, rm_current, rm_last_timestamp>>
             ELSE /\ rm_pc' = rm_pc
                  /\ IF m.match.matched /\ (rm_last_timestamp = <<>> \/ ~DatetimeLess(parse_timestamp(m.match.date), rm_last_timestamp[1]))
                     THEN ReaderStartNew(m.match, m.matched_format, locked)
                     ELSE ReaderContinuation(normalized)
    /\ UNCHANGED parser_vars
    /\ UNCHANGED classifier_vars
    /\ UNCHANGED summary_vars

\* Lines 332-335: the file is exhausted (parse has reached its end too, so no
\* further line exists); the pending message is emitted and the format defaults
\* to Android.
ReadMessagesEnd ==
    /\ rm_pc = "reading"
    /\ pc # "reading"
    /\ rm_pos = Len(consumed)
    /\ rm_messages' = IF rm_current # <<>> THEN Append(rm_messages, rm_current[1]) ELSE rm_messages
    /\ rm_export_format' = IF rm_export_format # None THEN rm_export_format ELSE "android"
    /\ rm_pc' = "returned"
    /\ UNCHANGED <<rm_current, rm_last_timestamp, rm_pos>>
    /\ UNCHANGED parser_vars
    /\ UNCHANGED classifier_vars
    /\ UNCHANGED summary_vars

\* The lines of the files both reconstructors are run on: messages with and
\* without an initial text, a stale one, the two kinds of system line, both
\* dialects, an impossible date, and lines without a prefix.
ReaderLines == {
    AndroidLine(T1, Message("A", <<"Hola">>)),
    AndroidLine(T2, <<"B", ":">>),
    AndroidLine(T0, Message("B", <<"ok">>)),
    AndroidLine(T2, <<"joined">>),
    AndroidLine(T2, Message("B", <<"Created this group", " ", "ok">>)),
    AndroidLine(TBAD, Message("A", <<"ok">>)),
    IosLine(T1, Message("A", <<"Hola">>)),
    IosLine(T2, <<"B", ":">>),
    <<" ", "chau", " ">>,
    <<>>}

ReadersNext ==
    \/ \E l \in ReaderLines : ParseLine(Append(l, "\n"))
    \/ EndOfStream
    \/ ReadMessagesLine
    \/ ReadMessagesEnd

\* ChatParser.parse and read_messages, each reading the same file on its own.
ReadersSpec == Init /\ [][ReadersNext]_vars

\* ---------------------------------------------------------------- properties of parse

ValueErrorRaised == error = "ValueError: Unrecognized date format"

\* The line matches one of the two timestamp prefixes, whatever the lock.
MatchesEither(raw_line) == IOS_TIMESTAMP_RE(Normalized(raw_line)).matched \/ ANDROID_TIMESTAMP_RE(Normalized(raw_line)).matched

\* The dialect of a matching line: iOS tried first, then Android.
DialectOf(raw_line) == IF IOS_TIMESTAMP_RE(Normalized(raw_line)).matched THEN "ios" ELSE "android"

\* The dialect of the first matching line read so far, None when no line matched.
FirstMatchingDialect ==
    IF \E i \in 1..Len(consumed) : MatchesEither(consumed[i])
    THEN DialectOf(consumed[CHOOSE i \in 1..Len(consumed) : MatchesEither(consumed[i]) /\ \A j \in 1..(i - 1) : ~MatchesEither(consumed[j])])
    ELSE None

\* C1: in every state of a run that raised no ValueError, export_format is the
\* dialect of the first line read so far that matches either prefix (None while
\* no line matched), so it is set by that line and never changes afterwards;
\* the returned Conversation carries the same dialect.
C1_FormatLockedByFirstMatch ==
    ~ValueErrorRaised =>
        /\ export_format = FirstMatchingDialect
        /\ pc = "returned" => conversation[1].export_format = _normalize_export_format(FirstMatchingDialect)

\* A returned iOS conversation whose first line matched nothing, whose second
\* line locked iOS and whose third line carries an Android prefix.
C1_Witness ==
    /\ pc = "returned"
    /\ Len(consumed) = 3
    /\ ~MatchesEither(consumed[1])
    /\ DialectOf(consumed[2]) = "ios" /\ MatchesEither(consumed[2])
    /\ ANDROID_TIMESTAMP_RE(Normalized(consumed[3])).matched
    /\ conversation[1].export_format = "ExportFormat.IOS"

MessageCounts(totals) == [name \in DOMAIN totals |-> totals[name].message_count]

\* C2: the year buckets and the participants' message counts both add up to the
\* number of finalized messages, in every state and in the returned Conversation.
C2_YearTotalEqualsMessageTotal ==
    /\ SumOver(year_counts, DOMAIN year_counts) = Len(finalized)
    /\ SumOver(MessageCounts(participant_totals), DOMAIN participant_totals) = Len(finalized)
    /\ pc = "returned" =>
        /\ SumOver(conversation[1].year_counts, DOMAIN conversation[1].year_counts) = Len(finalized)
        /\ SumOver(MessageCounts(conversation[1].participants), DOMAIN conversation[1].participants) = Len(finalized)

\* Three messages of two senders in two different years were finalized and returned.
C2_Witness ==
    /\ pc = "returned"
    /\ Len(finalized) = 3
    /\ Cardinality(DOMAIN conversation[1].year_counts) = 2
    /\ Cardinality(DOMAIN conversation[1].participants) = 2

\* The line with white space trimmed, as a continuation contributes it.
Trimmed(raw_line) == strip(Normalized(raw_line), Whitespace)

\* The trimmed text after the first colon of a line that starts a message.
InitialText(raw_line) ==
    LET rest == _match_timestamp(Normalized(raw_line), None).match.rest
    IN strip(SubSeq(rest, FirstColon(rest) + 1, Len(rest)), Whitespace)

\* The body rebuilt from the input: the initial text of line `first`, then the
\* trimmed non-blank lines first+1..last in input order, joined by newlines.
RECURSIVE BodyOf(_, _)
BodyOf(first, last) ==
    IF last = first THEN InitialText(consumed[first])
    ELSE IF Trimmed(consumed[last]) = <<>> THEN BodyOf(first, last - 1)
    ELSE BodyOf(first, last - 1) \o <<"\n">> \o Trimmed(consumed[last])

\* C3: the body of every finalized message, and of the pending one, is the
\* initial trimmed text followed by the trimmed non-blank lines that followed it
\* without starting a new message, in input order, joined by single newlines;
\* those lines belong to that one message (the line ranges of the messages do
\* not overlap).
C3_MultiLineBodyJoined ==
    /\ \A i \in DOMAIN finalized : finalized[i].text = BodyOf(finalized[i].line, finalized[i].last)
    /\ \A i \in DOMAIN finalized : i < Len(finalized) => finalized[i].last < finalized[i + 1].line
    /\ (current # <<>> /\ ~ValueErrorRaised) => current[1].text = BodyOf(current[1].line, Len(consumed))

\* A finalized message that spans three lines, with two different non-blank continuation lines.
C3_Witness ==
    /\ pc = "returned"
    /\ \E i \in DOMAIN finalized :
        /\ finalized[i].last = finalized[i].line + 2
        /\ Trimmed(consumed[finalized[i].line + 1]) # <<>>
        /\ Trimmed(consumed[finalized[i].line + 2]) # <<>>
        /\ Trimmed(consumed[finalized[i].line + 1]) # Trimmed(consumed[finalized[i].line + 2])
        /\ InitialText(consumed[finalized[i].line]) # <<>>

\* One step of parse that read a line matching the prefix tried under the lock,
\* with a parseable date/time and a last committed timestamp to compare with.
C4_Step ==
    LET raw_line == consumed'[Len(consumed')]
        normalized == Normalized(raw_line)
        m == _match_timestamp(normalized, export_format)
        timestamp == parse_timestamp(m.match.date)
    IN (Len(consumed') = Len(consumed) + 1 /\ m.match.matched /\ ~TimestampRaises(m.match.date) /\ last_timestamp # <<>>) =>
         IF DatetimeLess(timestamp, last_timestamp[1])
         THEN /\ finalized' = finalized
              /\ started' = started
              /\ last_timestamp' = last_timestamp
              /\ current = <<>> => current' = <<>>
              /\ current # <<>> =>
                   /\ current'[1] = [current[1] EXCEPT !.text = current[1].text \o <<"\n">> \o strip(normalized, Whitespace)]
                   /\ \E k \in (Len(current[1].text) + 1)..Len(current'[1].text) : current'[1].text[k] = m.match.date
         ELSE /\ last_timestamp' = <<timestamp>>
              /\ current # <<>> => finalized' = Append(finalized, FinalizedRecord(current[1], finalized'[Len(finalized')].kind, Len(consumed)))
              /\ current' # <<>> => current'[1].line = Len(consumed')

\* C4: a matched line whose timestamp is strictly earlier than the last
\* committed one starts nothing and finalizes nothing, and its whole trimmed
\* content, timestamp text included, is appended to the pending body; a matched
\* line whose timestamp is equal or later is accepted as new: it finalizes the
\* pending message and advances the last committed timestamp.
C4_StaleTimestampFolded == [][C4_Step]_vars

\* The last line read matched, was older than the last committed timestamp, and
\* the message pending before it is still pending with the line's date in its body.
C4_Witness ==
    /\ pc = "reading"
    /\ Len(consumed) >= 2
    /\ current # <<>>
    /\ current[1].line < Len(consumed)
    /\ LET m == _match_timestamp(Normalized(consumed[Len(consumed)]), export_format)
       IN /\ m.match.matched
          /\ ~TimestampRaises(m.match.date)
          /\ DatetimeLess(parse_timestamp(m.match.date), last_timestamp[1])
          /\ \E k \in DOMAIN current[1].text : current[1].text[k] = m.match.date

FinalizedLines == [i \in DOMAIN finalized |-> finalized[i].line]

\* C5: in a returned run the finalized messages are exactly the messages that
\* became pending, each once and in order; while reading, they are the started
\* ones except the one still pending; a message is finalized at the end of the
\* stream only as the last one.
C5_EveryPendingFinalizedOnce ==
    /\ pc = "returned" => FinalizedLines = started
    /\ pc = "reading" => FinalizedLines \o (IF current # <<>> THEN <<current[1].line>> ELSE <<>>) = started
    /\ \A i \in DOMAIN finalized : finalized[i].last = Len(consumed) => (pc # "reading" /\ i = Len(finalized))

\* Two messages became pending; the first was finalized by the next accepted
\* line and the second by the end of the stream.
C5_Witness ==
    /\ pc = "returned"
    /\ Len(started) = 2
    /\ Len(finalized) = 2
    /\ finalized[1].last < Len(consumed)
    /\ finalized[2].last = Len(consumed)

RECURSIVE SumTextLen(_, _)
SumTextLen(msgs, name) ==
    IF msgs = <<>> THEN 0
    ELSE (IF Head(msgs).sender = name /\ Head(msgs).kind = TEXT THEN StrLen(Head(msgs).text) ELSE 0) + SumTextLen(Tail(msgs), name)

\* C6: a participant's characters is the sum of the lengths of their finalized
\* bodies of kind Text; bodies of any other kind add nothing.
C6_CharactersCountTextOnly ==
    /\ \A name \in DOMAIN participant_totals : participant_totals[name].characters = SumTextLen(finalized, name)
    /\ pc = "returned" => \A name \in DOMAIN conversation[1].participants : conversation[1].participants[name].characters = SumTextLen(finalized, name)

\* A returned conversation with a participant who sent only media (characters 0)
\* and one who sent a multi-line text.
C6_Witness ==
    /\ pc = "returned"
    /\ \E name \in DOMAIN participant_totals : participant_totals[name].characters = 0 /\ participant_totals[name].message_count >= 1
    /\ \E i \in DOMAIN finalized : finalized[i].kind = TEXT /\ "\n" \in {finalized[i].text[k] : k \in DOMAIN finalized[i].text}

\* The Text bodies of a participant, in finalize order.
RECURSIVE TextBodies(_, _)
TextBodies(msgs, name) ==
    IF msgs = <<>> THEN <<>>
    ELSE (IF Head(msgs).sender = name /\ Head(msgs).kind = TEXT THEN <<Head(msgs).text>> ELSE <<>>) \o TextBodies(Tail(msgs), name)

\* The first body of maximum length.
FirstLongest(bodies) == bodies[CHOOSE i \in DOMAIN bodies : (\A j \in DOMAIN bodies : StrLen(bodies[j]) <= StrLen(bodies[i])) /\ (\A j \in 1..(i - 1) : StrLen(bodies[j]) < StrLen(bodies[i]))]

\* C7: longest_text of a participant is the first of their Text bodies, in
\* finalize order, of maximum length (the empty text for one without Text bodies).
C7_LongestTextFirstMaximum ==
    \A name \in DOMAIN participant_totals :
        participant_totals[name].longest_text = IF TextBodies(finalized, name) = <<>> THEN <<>> ELSE FirstLongest(TextBodies(finalized, name))

\* A participant with two different Text bodies of the same, maximum length,
\* followed by a third, shorter or equal one.
C7_Witness ==
    \E name \in DOMAIN participant_totals :
        LET bodies == TextBodies(finalized, name)
        IN /\ Len(bodies) = 3
           /\ bodies[1] # bodies[2]
           /\ StrLen(bodies[1]) = StrLen(bodies[2])
           /\ StrLen(bodies[3]) <= StrLen(bodies[1])
           /\ participant_totals[name].longest_text = bodies[1]

HasVoiceMarker(text) == StrContains("audio omit", lower(text)) \/ StrContains("nota de voz", lower(text)) \/ StrContains(VOICE_ONCE_PLACEHOLDER, lower(text))

\* A body with the video-note placeholder and no voice marker of rules 1-2.
VideoNoteBody(text) == StrContains(VIDEO_NOTE_PLACEHOLDER, lower(text)) /\ ~HasVoiceMarker(text)

RECURSIVE CountVideoNoteBodies(_, _)
CountVideoNoteBodies(msgs, name) ==
    IF msgs = <<>> THEN 0
    ELSE (IF Head(msgs).sender = name /\ VideoNoteBody(Head(msgs).text) THEN 1 ELSE 0) + CountVideoNoteBodies(Tail(msgs), name)

\* C8: a finalized body with the video-note placeholder (and no voice marker) is
\* Video when the message's dialect is iOS and VideoNote otherwise; in an iOS
\* transcript each such message counts in the sender's videos and video_notes
\* stays 0, in an Android transcript each counts in video_notes.
C8_VideoNoteByDialect ==
    /\ \A i \in DOMAIN finalized : VideoNoteBody(finalized[i].text) => finalized[i].kind = IF finalized[i].format = "ios" THEN VIDEO ELSE VIDEO_NOTE
    /\ export_format = "ios" => \A name \in DOMAIN participant_totals :
        /\ participant_totals[name].video_notes = 0
        /\ participant_totals[name].videos = CountVideoNoteBodies(finalized, name)
    /\ export_format = "android" => \A name \in DOMAIN participant_totals :
        /\ participant_totals[name].video_notes = CountVideoNoteBodies(finalized, name)
        /\ participant_totals[name].videos = 0

\* A returned iOS conversation whose participant sent a video-note placeholder: videos 1, video_notes 0.
C8_Witness ==
    /\ pc = "returned"
    /\ conversation[1].export_format = "ExportFormat.IOS"
    /\ \E i \in DOMAIN finalized :
        /\ VideoNoteBody(finalized[i].text)
        /\ finalized[i].kind = VIDEO
        /\ conversation[1].participants[finalized[i].sender].videos = 1
        /\ conversation[1].participants[finalized[i].sender].video_notes = 0

DomainErrorRaised == error = "DomainError: Unable to determine export format from chat transcript"

\* C11: when the whole input has been read and none of its lines matched either
\* dialect prefix, parse has ended with the DomainError 'Unable to determine
\* export format' and there is no Conversation.
C11_NoMatchIsDomainError ==
    (pc # "reading" /\ \A i \in 1..Len(consumed) : ~MatchesEither(consumed[i])) =>
        /\ pc = "error"
        /\ DomainErrorRaised
        /\ conversation = <<>>

\* parse ended with the DomainError after three lines, none of which matched a
\* prefix and one of which was not blank.
C11_Witness ==
    /\ pc = "error"
    /\ DomainErrorRaised
    /\ conversation = <<>>
    /\ Len(consumed) = 3
    /\ \A i \in 1..3 : ~MatchesEither(consumed[i])
    /\ \E i \in 1..3 : Trimmed(consumed[i]) # <<>>

\* One step of parse. A step that reads a line matched under the current lock
\* whose date/time text fits none of the four formats ends parse with the
\* ValueError, builds no Conversation and finalizes nothing; no step leaves an
\* ended parse.
C12_Step ==
    LET raw_line == consumed'[Len(consumed')]
        m == _match_timestamp(Normalized(raw_line), export_format)
    IN /\ pc = "reading"
       /\ (Len(consumed') = Len(consumed) + 1 /\ m.match.matched /\ TimestampRaises(m.match.date)) =>
            /\ pc' = "error"
            /\ error' = "ValueError: Unrecognized date format"
            /\ conversation' = <<>>
            /\ finalized' = finalized
            /\ participant_totals' = participant_totals
            /\ year_counts' = year_counts
            /\ text_messages' = text_messages

\* C12: a line that matches the prefix tried under the current lock and whose
\* date/time text none of the four formats parses aborts parse at that line with
\* an error and without a Conversation, whatever was finalized before it and
\* whatever was pending.
C12_BadDateAborts == [][C12_Step]_vars

\* parse aborted on its third line with one message finalized and one pending.
C12_Witness ==
    /\ pc = "error"
    /\ ValueErrorRaised
    /\ conversation = <<>>
    /\ Len(consumed) = 3
    /\ Len(finalized) = 1
    /\ current # <<>>
    /\ TimestampRaises(_match_timestamp(Normalized(consumed[3]), export_format).match.date)

\* The step read a line that was accepted as a new message: it matched under the
\* current lock, its date/time parses and it is not older than the last committed one.
AcceptedAsNew ==
    LET m == _match_timestamp(Normalized(consumed'[Len(consumed')]), export_format)
    IN /\ Len(consumed') = Len(consumed) + 1
       /\ m.match.matched
       /\ ~TimestampRaises(m.match.date)
       /\ (last_timestamp = <<>> \/ ~DatetimeLess(parse_timestamp(m.match.date), last_timestamp[1]))

\* The trailing content and the timestamp of the line the step read.
ReadRest == _match_timestamp(Normalized(consumed'[Len(consumed')]), export_format).match.rest

ReadTimestamp == parse_timestamp(_match_timestamp(Normalized(consumed'[Len(consumed')]), export_format).match.date)

\* The step dropped the line it read: no error, no pending message afterwards,
\* no message started; the message pending before it, and only that one, was
\* finalized and counted; the last committed timestamp is the line's own.
DroppedByStep ==
    /\ pc' = "reading"
    /\ error' = None
    /\ current' = <<>>
    /\ started' = started
    /\ last_timestamp' = <<ReadTimestamp>>
    /\ IF current = <<>>
       THEN /\ finalized' = finalized
            /\ participant_totals' = participant_totals
            /\ year_counts' = year_counts
            /\ text_messages' = text_messages
       ELSE /\ Len(finalized') = Len(finalized) + 1
            /\ SubSeq(finalized', 1, Len(finalized)) = finalized
            /\ finalized'[Len(finalized')].line = current[1].line
            /\ finalized'[Len(finalized')].text = current[1].text
            /\ DOMAIN participant_totals' = DOMAIN participant_totals \cup {current[1].sender}
            /\ SumOver(MessageCounts(participant_totals'), DOMAIN participant_totals') = SumOver(MessageCounts(participant_totals), DOMAIN participant_totals) + 1
            /\ SumOver(year_counts', DOMAIN year_counts') = SumOver(year_counts, DOMAIN year_counts) + 1

C13_Step == (AcceptedAsNew /\ ~StrContains(":", ReadRest)) => DroppedByStep

\* C13: a line accepted as a new message whose trailing content has no colon
\* raises no error, creates no participant and no pending message, finalizes the
\* message that was pending and makes its own timestamp the last committed one.
C13_NoColonLineDropped == [][C13_Step]_vars

\* The last line read has a prefix and no colon; the message pending before it
\* was finalized by it, nothing is pending, and the last committed timestamp
\* moved from the finalized message's timestamp to the line's own, later one.
C13_Witness ==
    /\ pc = "reading"
    /\ Len(consumed) >= 2
    /\ current = <<>>
    /\ finalized # <<>>
    /\ finalized[Len(finalized)].last = Len(consumed) - 1
    /\ LET m == _match_timestamp(Normalized(consumed[Len(consumed)]), export_format)
       IN /\ m.match.matched
          /\ ~StrContains(":", m.match.rest)
          /\ last_timestamp = <<parse_timestamp(m.match.date)>>
          /\ DatetimeLess(finalized[Len(finalized)].timestamp, last_timestamp[1])
          /\ \A name \in DOMAIN participant_totals : \E i \in DOMAIN finalized : finalized[i].sender = name

\* The text contains one of the fixed system markers, compared in lower case
\* after trimming left-to-right marks, right-to-left marks and spaces.
ContainsSystemMarker(text) ==
    LET trimmed == strip(text, {LRM, RLM, " "})
    IN \E marker \in SYSTEM_TEXT_MARKERS : \E i \in 1..Len(trimmed) : marker \in Fragments(LowerToken(trimmed[i]))

\* The trimmed text after the first colon of the trailing content.
TextAfterColon(rest) == strip(SubSeq(rest, FirstColon(rest) + 1, Len(rest)), Whitespace)

\* The trimmed sender before the first colon of the trailing content.
SenderBeforeColon(rest) == strip(SubSeq(rest, 1, FirstColon(rest) - 1), Whitespace)

C14_Step ==
    (AcceptedAsNew /\ StrContains(":", ReadRest) /\ ContainsSystemMarker(TextAfterColon(ReadRest))) =>
        /\ DroppedByStep
        /\ (SenderBeforeColon(ReadRest) \in DOMAIN participant_totals') => (SenderBeforeColon(ReadRest) \in DOMAIN participant_totals \/ (current # <<>> /\ current[1].sender = SenderBeforeColon(ReadRest)))

\* C14: a line accepted as a new message whose text after the first colon
\* contains a system marker anywhere in it (in any letter case) is dropped: it
\* does not become pending, so it is never finalized; it adds nothing to any
\* message_count or year bucket and does not create a participant for its sender.
C14_SystemMarkerLineDropped == [][C14_Step]_vars

\* A returned conversation in which a line of sender B, whose text holds a marker
\* in capitals followed by other words, was accepted and dropped: B, who sent
\* nothing else, is no participant, and the other sender's message was counted.
C14_Witness ==
    /\ pc = "returned"
    /\ Len(consumed) = 2
    /\ Len(finalized) = 1
    /\ finalized[1].line = 1
    /\ LET rest == _match_timestamp(Normalized(consumed[2]), export_format).match.rest
       IN /\ StrContains(":", rest)
          /\ ContainsSystemMarker(TextAfterColon(rest))
          /\ \E marker \in SYSTEM_TEXT_MARKERS : <<marker>> # lower(TextAfterColon(rest))
          /\ TextAfterColon(rest) # lower(TextAfterColon(rest))
          /\ SenderBeforeColon(rest) \notin DOMAIN conversation[1].participants
          /\ last_timestamp = <<parse_timestamp(_match_timestamp(Normalized(consumed[2]), export_format).match.date)>>
    /\ Cardinality(DOMAIN conversation[1].participants) = 1

\* The bodies of the Text-kind messages of a sequence, in order.
RECURSIVE TextKindBodies(_)
TextKindBodies(msgs) ==
    IF msgs = <<>> THEN <<>>
    ELSE (IF Head(msgs).kind = TEXT THEN <<Head(msgs).text>> ELSE <<>>) \o TextKindBodies(Tail(msgs))

\* C15, for ChatParser.parse: text_messages is the sequence of the bodies of the
\* finalized messages of kind Text, in finalize order, the empty body included,
\* and the returned Conversation carries that sequence.
C15_ParserCorpusIsTextBodies ==
    /\ text_messages = TextKindBodies(finalized)
    /\ pc = "returned" => conversation[1].text_messages = TextKindBodies(finalized)

\* One step of parse that read a line beginning with a byte-order mark, a
\* left-to-right mark or a right-to-left mark: the step is the one the same line
\* without its leading marks would have made.
C16_Step ==
    LET raw_line == consumed'[Len(consumed')]
    IN (Len(consumed') = Len(consumed) + 1 /\ Head(raw_line) \in Marks) => ProcessLine(Normalized(lstrip(raw_line, Marks)))

\* C16: a line that begins with a byte-order mark, a left-to-right mark or a
\* right-to-left mark is processed exactly as the same line without those
\* leading marks: it is recognized as a timestamp line in the same cases and
\* produces the same message.
C16_LeadingMarksIgnored == [][C16_Step]_vars

\* C17: for every transcript parse accepts (a Conversation was returned), the
\* summarize call of handle_upload succeeds on that Conversation, and the
\* total_messages it reports is the number of finalized messages.
C17_PipelineComposes ==
    (conversation # <<>> /\ pc # "returned") =>
        /\ pc = "summarized"
        /\ sum_stats[1].result.total_messages = Len(finalized)

\* The five per-kind counters of a participant.
KindCounters == {"voice_notes", "videos", "video_notes", "photos", "stickers"}

\* The value of a key before a get-or-insert: the stored one, or the default.
ValueBefore(d, key, default) == IF key \in DOMAIN d THEN d[key] ELSE default

\* The effect of one finalize on the aggregates `totals`, `years`, `texts`
\* (primed: after): rec is the message finalized.
FinalizeFrame(rec, totals, totalsAfter, years, yearsAfter, texts, textsAfter, zero) ==
    LET sender == rec.sender
        year == rec.timestamp.year
        before == ValueBefore(totals, sender, zero)
        after == totalsAfter[sender]
    IN /\ DOMAIN totalsAfter = DOMAIN totals \cup {sender}
       /\ \A name \in DOMAIN totals : name # sender => totalsAfter[name] = totals[name]
       /\ after.message_count = before.message_count + 1
       /\ DOMAIN yearsAfter = DOMAIN years \cup {year}
       /\ \A y \in DOMAIN years : y # year => yearsAfter[y] = years[y]
       /\ yearsAfter[year] = ValueBefore(years, year, 0) + 1
       /\ rec.kind # TEXT =>
            /\ \E c \in KindCounters : after[c] = before[c] + 1 /\ \A d \in KindCounters \ {c} : after[d] = before[d]
            /\ after.characters = before.characters
            /\ after.longest_text = before.longest_text
            /\ textsAfter = texts
       /\ rec.kind = TEXT => \A c \in KindCounters : after[c] = before[c]

\* One step of parse. A step finalizes at most one message, the pending one as
\* it stood; the aggregates change as FinalizeFrame says; the lock is unchanged;
\* at the end of the stream the pending message and the last committed
\* timestamp stay as they were, and on a line the new pending message and the
\* new last committed timestamp are those of the line read.
C21_Step ==
    /\ Len(finalized') = Len(finalized) => (participant_totals' = participant_totals /\ year_counts' = year_counts /\ text_messages' = text_messages)
    /\ Len(finalized') # Len(finalized) =>
        /\ finalized' = Append(finalized, finalized'[Len(finalized')])
        /\ current # <<>>
        /\ finalized'[Len(finalized')] = FinalizedRecord(current[1], finalized'[Len(finalized')].kind, Len(consumed))
        /\ FinalizeFrame(finalized'[Len(finalized')], participant_totals, participant_totals', year_counts, year_counts', text_messages, text_messages', ParticipantTotals)
        /\ export_format' = export_format
        /\ IF consumed' = consumed
           THEN current' = current /\ last_timestamp' = last_timestamp
           ELSE last_timestamp' = <<ReadTimestamp>> /\ (current' # <<>> => current'[1].line = Len(consumed'))

\* C21: each finalize adds 1 to the message_count of exactly one participant
\* (the sender) and 1 to exactly one year bucket (the year of the message's
\* timestamp); every other participant's counters and every other year bucket
\* stay as they were, and so do the lock and, for the finalize itself, the
\* pending state; for a kind other than Text exactly one of the sender's five
\* kind counters grows by 1 while characters, longest_text and the text corpus
\* stay as they were. A step without a finalize changes no aggregate.
C21_FinalizeFrame == [][C21_Step]_vars

\* A media message of one sender was finalized after a text message of another
\* sender in another year: the first sender's counters are those of the text alone.
C21_Witness ==
    /\ Len(finalized) = 2
    /\ finalized[1].kind = TEXT
    /\ finalized[2].kind # TEXT
    /\ finalized[1].sender # finalized[2].sender
    /\ finalized[1].timestamp.year # finalized[2].timestamp.year
    /\ participant_totals[finalized[1].sender].message_count = 1
    /\ participant_totals[finalized[1].sender].characters = StrLen(finalized[1].text)
    /\ participant_totals[finalized[2].sender].characters = 0
    /\ year_counts[finalized[1].timestamp.year] = 1

\* The step read a line that was not accepted as a new message: it did not
\* match the prefix tried under the current lock, or it matched with a date/time
\* that parses and is older than the last committed timestamp.
NotAcceptedAsNew ==
    LET m == _match_timestamp(Normalized(consumed'[Len(consumed')]), export_format)
    IN /\ Len(consumed') = Len(consumed) + 1
       /\ \/ ~m.match.matched
          \/ /\ ~TimestampRaises(m.match.date)
             /\ last_timestamp # <<>>
             /\ DatetimeLess(parse_timestamp(m.match.date), last_timestamp[1])

C22_Step ==
    NotAcceptedAsNew =>
        /\ UNCHANGED <<participant_totals, year_counts, text_messages, export_format, last_timestamp>>
        /\ UNCHANGED <<pc, error, conversation, finalized, started>>
        /\ current = <<>> => current' = <<>>
        /\ current # <<>> =>
             /\ current' # <<>>
             /\ current'[1] = [current[1] EXCEPT !.text = current'[1].text]
             /\ current'[1].text = IF Trimmed(consumed'[Len(consumed')]) = <<>> THEN current[1].text ELSE current[1].text \o <<"\n">> \o Trimmed(consumed'[Len(consumed')])

\* C22: a line that is not accepted as a new message (no prefix match, or a
\* match rejected as older than the last committed timestamp) changes none of
\* the participant totals, the year counts, the text corpus, the locked format
\* and the last committed timestamp, and finalizes and starts nothing; it only
\* appends its trimmed content to the pending body; a blank line leaves the
\* pending message as it is; without a pending message nothing changes at all.
C22_NonAcceptedLineFrame == [][C22_Step]_vars

\* After a message started on line 1, line 2 was blank and line 3 matched the
\* prefix with an older timestamp: the pending body is the initial text and
\* line 3, nothing was finalized, and the last committed timestamp is line 1's.
C22_Witness ==
    /\ pc = "reading"
    /\ Len(consumed) = 3
    /\ current # <<>>
    /\ current[1].line = 1
    /\ finalized = <<>>
    /\ Trimmed(consumed[2]) = <<>>
    /\ _match_timestamp(Normalized(consumed[3]), export_format).match.matched
    /\ current[1].text = InitialText(consumed[1]) \o <<"\n">> \o Trimmed(consumed[3])
    /\ last_timestamp = <<current[1].timestamp>>

\* The step read, under a lock to `locked`, a line that carries the prefix of the
\* other dialect `shape` (and not the locked dialect's prefix).
ReadOtherDialect(locked, shape) ==
    LET normalized == Normalized(consumed'[Len(consumed')])
    IN /\ Len(consumed') = Len(consumed) + 1
       /\ export_format = locked
       /\ IF shape = "android"
          THEN ANDROID_TIMESTAMP_RE(normalized).matched /\ ~IOS_TIMESTAMP_RE(normalized).matched
          ELSE IOS_TIMESTAMP_RE(normalized).matched

\* The date/time text of the line the step read, taken by the pattern of `shape`.
ReadDateOf(shape) ==
    LET normalized == Normalized(consumed'[Len(consumed')])
    IN IF shape = "android" THEN ANDROID_TIMESTAMP_RE(normalized).date ELSE IOS_TIMESTAMP_RE(normalized).date

\* The step treated the line it read as a continuation line: no error, nothing
\* finalized, started or committed, and the whole trimmed line, date/time text
\* included, appended to the pending body if there is one.
FoldedByStep(shape) ==
    /\ UNCHANGED <<pc, error, conversation, finalized, started, participant_totals, year_counts, text_messages, export_format, last_timestamp>>
    /\ current = <<>> => current' = <<>>
    /\ current # <<>> =>
         /\ current' = <<[current[1] EXCEPT !.text = current[1].text \o <<"\n">> \o Trimmed(consumed'[Len(consumed')])]>>
         /\ \E k \in (Len(current[1].text) + 1)..Len(current'[1].text) : current'[1].text[k] = ReadDateOf(shape)

\* C23 as stated: under a lock to iOS, a line with an Android prefix whose
\* timestamp is not earlier than the last committed one is accepted as a new
\* message: it finalizes the pending message, commits its timestamp and, when
\* it has a sender and its text is no system text, becomes the pending message.
C23_AndroidUnderIosAccepted ==
    [][(/\ ReadOtherDialect("ios", "android")
        /\ ~TimestampRaises(ReadDateOf("android"))
        /\ (last_timestamp = <<>> \/ ~DatetimeLess(parse_timestamp(ReadDateOf("android")), last_timestamp[1])))
       => /\ last_timestamp' = <<parse_timestamp(ReadDateOf("android"))>>
          /\ current # <<>> => Len(finalized') = Len(finalized) + 1
          /\ current' # <<>> => current'[1].line = Len(consumed')]_vars

\* C23, amended: under a lock to iOS only the iOS pattern is tried, so a line
\* with an Android prefix is not matched at all, whatever its timestamp (even
\* one that does not parse): the acceptance rule is never asked about it, it
\* starts and finalizes nothing, and it is folded into the pending body.
C23_AndroidUnderIosFolded == [][ReadOtherDialect("ios", "android") => FoldedByStep("android")]_vars

\* Under a lock to iOS the last line read has an Android prefix with a timestamp
\* later than the last committed one; the iOS message pending before it is
\* still pending and its body ends with that line.
C23_Witness ==
    /\ pc = "reading"
    /\ export_format = "ios"
    /\ Len(consumed) >= 2
    /\ current # <<>>
    /\ current[1].line < Len(consumed)
    /\ current[1].format = "ios"
    /\ LET a == ANDROID_TIMESTAMP_RE(Normalized(consumed[Len(consumed)]))
       IN /\ a.matched
          /\ ~TimestampRaises(a.date)
          /\ DatetimeLess(last_timestamp[1], parse_timestamp(a.date))
          /\ \E k \in DOMAIN current[1].text : current[1].text[k] = a.date

\* C24: once the format is locked to Android, a line with an iOS bracketed
\* prefix never starts a new message and never finalizes the pending one,
\* whether its timestamp is earlier than, equal to or later than the last
\* committed one; it is a continuation line: its whole content, bracketed
\* prefix included, trimmed as every continuation line is, is appended to the
\* pending body if there is one, and nothing else changes.
C24_IosUnderAndroidFolded == [][ReadOtherDialect("android", "ios") => FoldedByStep("ios")]_vars

\* Under a lock to Android the last line read has an iOS prefix with a timestamp
\* later than the last committed one; the Android message pending before it is
\* still pending, nothing was finalized, and its body ends with the whole line.
C24_Witness ==
    /\ pc = "reading"
    /\ export_format = "android"
    /\ Len(consumed) = 2
    /\ current # <<>>
    /\ current[1].line = 1
    /\ finalized = <<>>
    /\ LET i == IOS_TIMESTAMP_RE(Normalized(consumed[2]))
       IN /\ i.matched
          /\ DatetimeLess(last_timestamp[1], parse_timestamp(i.date))
          /\ current[1].text = InitialText(consumed[1]) \o <<"\n">> \o Trimmed(consumed[2])
          /\ \E k \in DOMAIN current[1].text : current[1].text[k] = "[" /\ current[1].text[k + 1] = i.date

\* The counters of a participant that only ever grow.
GrowingCounters == KindCounters \cup {"message_count", "characters"}

\* The senders of the finalized messages.
FinalizedSenders == {finalized[i].sender : i \in DOMAIN finalized}

\* The number of finalized messages of a sender.
FinalizedCount(name) == Cardinality({i \in DOMAIN finalized : finalized[i].sender = name})

\* The participants are exactly the senders of the finalized messages, each
\* with as many messages as were finalized for it, and the returned
\* Conversation has the same participants with the same counts.
ParticipantsAreFinalizedSenders ==
    /\ DOMAIN participant_totals = FinalizedSenders
    /\ \A name \in DOMAIN participant_totals : participant_totals[name].message_count = FinalizedCount(name)
    /\ pc = "returned" =>
         /\ DOMAIN conversation[1].participants = FinalizedSenders
         /\ \A name \in DOMAIN conversation[1].participants :
              /\ conversation[1].participants[name].message_count = FinalizedCount(name)
              /\ conversation[1].participants[name].message_count >= 1

C26_Step ==
    /\ DOMAIN participant_totals \subseteq DOMAIN participant_totals'
    /\ \A name \in DOMAIN participant_totals :
         /\ \A c \in GrowingCounters : participant_totals'[name][c] >= participant_totals[name][c]
         /\ StrLen(participant_totals'[name].longest_text) >= StrLen(participant_totals[name].longest_text)
    /\ \A name \in DOMAIN participant_totals' \ DOMAIN participant_totals :
         /\ Len(finalized') = Len(finalized) + 1
         /\ finalized'[Len(finalized')].sender = name
         /\ name \notin FinalizedSenders
    /\ ParticipantsAreFinalizedSenders'

\* C26: the participant map only grows: a step removes no participant and
\* lowers none of a participant's counters; a participant appears in the step
\* that finalizes the first message of its sender; so the participants are
\* exactly the senders of finalized messages, each with a message_count equal
\* to the number of its finalized messages, which is at least 1, also in the
\* returned Conversation; a sender whose lines were all dropped does not appear.
C26_ParticipantsOnlyGrow == [][C26_Step]_vars

\* A returned conversation of three lines: one sender has two messages,
\* finalized in separate steps, and is the only participant; the sender of the
\* other line, dropped as a system line, is no participant.
C26_Witness ==
    /\ pc = "returned"
    /\ Len(consumed) = 3
    /\ Len(finalized) = 2
    /\ finalized[1].sender = finalized[2].sender
    /\ DOMAIN conversation[1].participants = {finalized[1].sender}
    /\ conversation[1].participants[finalized[1].sender].message_count = 2
    /\ \E i \in 1..3 :
        LET rest == _match_timestamp(Normalized(consumed[i]), export_format).match.rest
        IN /\ StrContains(":", rest)
           /\ ContainsSystemMarker(TextAfterColon(rest))
           /\ SenderBeforeColon(rest) \notin DOMAIN conversation[1].participants
           /\ \A k \in DOMAIN finalized : finalized[k].line # i /\ ~(finalized[k].line < i /\ i <= finalized[k].last)

Terminated == pc \in {"returned", "error"}

\* One step of parse: it starts from a run that has not ended; it either
\* consumes one line, placed after the lines consumed before, which stay as
\* they were, and goes on or ends with an error; or it consumes nothing, at the
\* end of the input, and ends the run. A run that has ended has a Conversation
\* and no error, or an error and no Conversation.
C28_Step ==
    /\ ~Terminated
    /\ \/ /\ Len(consumed') = Len(consumed) + 1
          /\ SubSeq(consumed', 1, Len(consumed)) = consumed
          /\ pc' \in {"reading", "error"}
       \/ /\ consumed' = consumed
          /\ Terminated'
    /\ pc' = "returned" => (conversation' # <<>> /\ error' = None)
    /\ pc' = "error" => (conversation' = <<>> /\ error' # None)
    /\ pc' = "reading" => (conversation' = <<>> /\ error' = None)

\* C28: parse is one sequential pass: every step consumes the next line of the
\* input, once and in order, or ends the run; no step follows the end; and
\* every run on a finite input ends, with a returned Conversation or with an error.
C28_SinglePassTerminates == [][C28_Step]_vars /\ <>Terminated

\* A run that consumed three lines, the last two of which were folded into the
\* message of the first, and returned.
C28_Witness ==
    /\ pc = "returned"
    /\ Len(consumed) = 3
    /\ FinalizedLines = <<1>>
    /\ finalized[1].last = 3
    /\ conversation # <<>>

\* C28, for every modelled line: each step of parse consumes one line or ends the run.
C28_EveryStepConsumes == [][C28_Step]_vars

\* One step of parse that read a line for which _match_timestamp returned a
\* match: the matched format is named and is the locked one if a format is
\* locked, so neither the first nor the third guard of _should_start_new
\* applies; when the date/time parses, the line is accepted exactly when it is
\* not older than the last committed timestamp, and an accepted line commits
\* its timestamp while a rejected one leaves the committed one.
C29_Step ==
    LET m == _match_timestamp(Normalized(consumed'[Len(consumed')]), export_format)
        olderThanLast == last_timestamp # <<>> /\ DatetimeLess(parse_timestamp(m.match.date), last_timestamp[1])
    IN (Len(consumed') = Len(consumed) + 1 /\ m.match.matched) =>
        /\ m.matched_format \in {"ios", "android"}
        /\ export_format # None => m.matched_format = export_format
        /\ ~(export_format # None /\ m.matched_format # export_format /\ m.matched_format = "ios")
        /\ ~TimestampRaises(m.match.date) =>
             /\ _should_start_new(m.match, m.matched_format, export_format, last_timestamp) = ~olderThanLast
             /\ IF olderThanLast THEN last_timestamp' = last_timestamp /\ started' = started /\ finalized' = finalized
                ELSE last_timestamp' = <<parse_timestamp(m.match.date)>> /\ export_format' = m.matched_format

\* C29: whenever a line matched a prefix, the matched dialect is present and
\* equals the locked format if one is locked; so the guards 'matched dialect
\* absent' and 'differs from the lock and is iOS' of _should_start_new reject
\* no line, and whether a matched line is accepted is decided by the
\* comparison of its timestamp with the last committed one alone.
C29_OnlyTimestampDecides == [][C29_Step]_vars

\* Under a lock to Android two lines with the same timestamp were read: the
\* second matched, was not older than the first and started the second message.
C29_Witness ==
    /\ pc = "reading"
    /\ export_format = "android"
    /\ Len(consumed) = 2
    /\ started = <<1, 2>>
    /\ Len(finalized) = 1
    /\ last_timestamp = <<finalized[1].timestamp>>
    /\ current[1].timestamp = finalized[1].timestamp

\* One step of parse: a committed timestamp stays committed and does not go
\* back; a line accepted as new, kept or dropped, commits its own timestamp;
\* the finalized messages are in non-decreasing order of timestamp, and none
\* is later than the committed timestamp.
C30_Step ==
    /\ last_timestamp # <<>> => (last_timestamp' # <<>> /\ ~DatetimeLess(last_timestamp'[1], last_timestamp[1]))
    /\ AcceptedAsNew => last_timestamp' = <<ReadTimestamp>>
    /\ \A i, j \in DOMAIN finalized' : i < j => ~DatetimeLess(finalized'[j].timestamp, finalized'[i].timestamp)
    /\ \A i \in DOMAIN finalized' : ~DatetimeLess(last_timestamp'[1], finalized'[i].timestamp)
    /\ current' # <<>> => ~DatetimeLess(last_timestamp'[1], current'[1].timestamp)

\* C30: the last committed timestamp never decreases during a run; every line
\* accepted as new sets it to the line's timestamp, also a line that is then
\* dropped for having no sender or being a system line; and the timestamps of
\* the finalized messages are non-decreasing in finalize order.
C30_CommittedTimestampMonotonic == [][C30_Step]_vars

\* A message was finalized by a system line with a later timestamp, which was
\* dropped; the third line, dated between the two, matched and was rejected as
\* older than the dropped line's timestamp.
C30_Witness ==
    /\ pc = "reading"
    /\ Len(consumed) = 3
    /\ Len(finalized) = 1
    /\ finalized[1].last = 1
    /\ current = <<>>
    /\ LET m2 == _match_timestamp(Normalized(consumed[2]), export_format)
           m3 == _match_timestamp(Normalized(consumed[3]), export_format)
       IN /\ m2.match.matched
          /\ StrContains(":", m2.match.rest)
          /\ ContainsSystemMarker(TextAfterColon(m2.match.rest))
          /\ last_timestamp = <<parse_timestamp(m2.match.date)>>
          /\ DatetimeLess(finalized[1].timestamp, last_timestamp[1])
          /\ m3.match.matched
          /\ ~TimestampRaises(m3.match.date)
          /\ DatetimeLess(parse_timestamp(m3.match.date), last_timestamp[1])
          /\ DatetimeLess(finalized[1].timestamp, parse_timestamp(m3.match.date))

\* The number of finalized messages of a sender that were given a kind.
RECURSIVE KindCount(_, _, _)
KindCount(msgs, name, kind) ==
    IF msgs = <<>> THEN 0
    ELSE (IF Head(msgs).sender = name /\ Head(msgs).kind = kind THEN 1 ELSE 0) + KindCount(Tail(msgs), name, kind)

\* The number of finalized Video messages of a sender whose body holds no video-note placeholder.
RECURSIVE OtherVideoCount(_, _)
OtherVideoCount(msgs, name) ==
    IF msgs = <<>> THEN 0
    ELSE (IF Head(msgs).sender = name /\ Head(msgs).kind = VIDEO /\ ~StrContains(VIDEO_NOTE_PLACEHOLDER, lower(Head(msgs).text)) THEN 1 ELSE 0) + OtherVideoCount(Tail(msgs), name)

\* C31: the dialect hint of the pending message and of every finalized message
\* is the locked export format, so one run classifies with one dialect: under a
\* lock to iOS every participant's video_notes is 0 (also in the returned
\* Conversation); under a lock to Android no body with the video-note
\* placeholder is a Video, and a participant's videos counts only Video
\* messages without the placeholder.
C31_HintIsLockedFormat ==
    /\ current # <<>> => (export_format # None /\ current[1].format = export_format)
    /\ \A i \in DOMAIN finalized : finalized[i].format = export_format
    /\ export_format = "ios" =>
        /\ \A name \in DOMAIN participant_totals : participant_totals[name].video_notes = 0
        /\ pc = "returned" => \A name \in DOMAIN conversation[1].participants : conversation[1].participants[name].video_notes = 0
    /\ export_format = "android" =>
        /\ \A i \in DOMAIN finalized : StrContains(VIDEO_NOTE_PLACEHOLDER, lower(finalized[i].text)) => finalized[i].kind # VIDEO
        /\ \A name \in DOMAIN participant_totals : participant_totals[name].videos = OtherVideoCount(finalized, name)
        /\ pc = "returned" => \A name \in DOMAIN conversation[1].participants : conversation[1].participants[name].videos = OtherVideoCount(finalized, name)

\* A returned Android conversation in which a line with an iOS prefix was read
\* and a video-note placeholder was finalized with the Android hint: the sender
\* has one video note and no video.
C31_Witness ==
    /\ pc = "returned"
    /\ conversation[1].export_format = "ExportFormat.ANDROID"
    /\ \E k \in DOMAIN consumed : IOS_TIMESTAMP_RE(Normalized(consumed[k])).matched
    /\ \E i \in DOMAIN finalized :
        /\ StrContains(VIDEO_NOTE_PLACEHOLDER, lower(finalized[i].text))
        /\ finalized[i].format = "android"
        /\ finalized[i].kind = VIDEO_NOTE
        /\ conversation[1].participants[finalized[i].sender].video_notes = 1
        /\ conversation[1].participants[finalized[i].sender].videos = 0

\* The five kind counters of a participant, added up.
KindSum(stats) == stats.voice_notes + stats.videos + stats.video_notes + stats.photos + stats.stickers

\* C32, for ChatParser.parse: each participant's message_count is the sum of
\* their five kind counters and the number of their finalized Text messages,
\* and the length of text_messages plus all kind counters is the number of
\* finalized messages.
C32_ParserKindPartition ==
    /\ \A name \in DOMAIN participant_totals : participant_totals[name].message_count = KindSum(participant_totals[name]) + KindCount(finalized, name, TEXT)
    /\ Len(text_messages) + SumOver([name \in DOMAIN participant_totals |-> KindSum(participant_totals[name])], DOMAIN participant_totals) = Len(finalized)

\* The line the step read was accepted as new and is a system line: its
\* trailing content has no colon, or its text after the colon holds a marker.
SystemLineRead == AcceptedAsNew /\ (~StrContains(":", ReadRest) \/ ContainsSystemMarker(TextAfterColon(ReadRest)))

\* One step of parse. A system line leaves nothing pending, and the message
\* pending before it is finalized with the body it had. With nothing pending, a
\* line that is not accepted as new is discarded: still nothing is pending and
\* no aggregate changes. The finalized messages stay as they were finalized.
C34_Step ==
    /\ SystemLineRead =>
        /\ current' = <<>>
        /\ current # <<>> => finalized' = Append(finalized, FinalizedRecord(current[1], finalized'[Len(finalized')].kind, Len(consumed)))
    /\ (current = <<>> /\ Len(consumed') = Len(consumed) + 1 /\ ~AcceptedAsNew) =>
        /\ current' = <<>>
        /\ UNCHANGED <<finalized, started, participant_totals, year_counts, text_messages, last_timestamp>>
    /\ (current = <<>> /\ current' # <<>>) => (AcceptedAsNew /\ ~SystemLineRead /\ current'[1].line = Len(consumed'))
    /\ Len(finalized') >= Len(finalized) /\ SubSeq(finalized', 1, Len(finalized)) = finalized

\* C34: after a line dropped as a system line nothing is pending until a line
\* with a sender is accepted; the lines in between that are not accepted as
\* new are discarded, not appended to the message that preceded the system
\* line, which was finalized by the system line with its body as it stood.
C34_NoPendingAfterSystemLine == [][C34_Step]_vars

\* A message, then a system line that finalized it, then a non-blank line
\* without a prefix: the run returned the message with the body of its first
\* line alone, finalized before the third line was read.
C34_Witness ==
    /\ pc = "returned"
    /\ Len(consumed) = 3
    /\ Len(finalized) = 1
    /\ finalized[1].line = 1
    /\ finalized[1].last = 1
    /\ finalized[1].text = InitialText(consumed[1])
    /\ LET m == _match_timestamp(Normalized(consumed[2]), export_format)
       IN m.match.matched /\ (~StrContains(":", m.match.rest) \/ ContainsSystemMarker(TextAfterColon(m.match.rest)))
    /\ ~MatchesEither(consumed[3])
    /\ Trimmed(consumed[3]) # <<>>
    /\ conversation[1].text_messages = <<InitialText(consumed[1])>>

\* The line matches a prefix and is a system line: its trailing content has no
\* colon, or its text after the first colon holds a system marker.
IsSystemLine(raw_line) ==
    LET rest == _match_timestamp(Normalized(raw_line), None).match.rest
    IN MatchesEither(raw_line) /\ (~StrContains(":", rest) \/ ContainsSystemMarker(TextAfterColon(rest)))

\* C35: parse ends with the undetermined-format DomainError only if no line
\* read matched a prefix; a run that has ended on an input with a matching line
\* and without ValueError returned a Conversation; and when every matching
\* line of that input is a system line, the Conversation has the format locked
\* by the first of them, no participants, no year counts and no text.
C35_DomainErrorOnlyWithoutMatch ==
    /\ DomainErrorRaised => \A i \in 1..Len(consumed) : ~MatchesEither(consumed[i])
    /\ (pc # "reading" /\ ~ValueErrorRaised /\ \E i \in 1..Len(consumed) : MatchesEither(consumed[i])) =>
        /\ pc = "returned"
        /\ error = None
        /\ conversation # <<>>
        /\ conversation[1].export_format = _normalize_export_format(FirstMatchingDialect)
        /\ (\A i \in 1..Len(consumed) : MatchesEither(consumed[i]) => IsSystemLine(consumed[i])) =>
            /\ conversation[1].participants = <<>>
            /\ conversation[1].year_counts = <<>>
            /\ conversation[1].text_messages = <<>>
            /\ finalized = <<>>

\* A returned Conversation for three lines: a system line without a colon, a
\* system line with a marker after the colon, and a non-blank line without a
\* prefix; it has a format and nothing else.
C35_Witness ==
    /\ pc = "returned"
    /\ Len(consumed) = 3
    /\ \E i, j \in 1..3 :
        /\ IsSystemLine(consumed[i]) /\ ~StrContains(":", _match_timestamp(Normalized(consumed[i]), None).match.rest)
        /\ IsSystemLine(consumed[j]) /\ StrContains(":", _match_timestamp(Normalized(consumed[j]), None).match.rest)
    /\ \E i \in 1..3 : ~MatchesEither(consumed[i]) /\ Trimmed(consumed[i]) # <<>>
    /\ conversation[1].export_format = "ExportFormat.ANDROID"
    /\ conversation[1].participants = <<>>
    /\ conversation[1].year_counts = <<>>
    /\ conversation[1].text_messages = <<>>

\* ---------------------------------------------------------------- properties of the classifier

\* Whether rule i of the precedence list applies to the body.
RuleMatches(i, text) ==
    CASE i = 1 -> StrContains("audio omit", lower(text)) \/ StrContains("nota de voz", lower(text))
      [] i = 2 -> StrContains(VOICE_ONCE_PLACEHOLDER, lower(text))
      [] i = 3 -> StrContains(VIDEO_NOTE_PLACEHOLDER, lower(text))
      [] i = 4 -> StrContains(MEDIA_PLACEHOLDER, lower(text))
      [] i = 5 -> _detect_attachment(text) # None
      [] i = 6 -> StrContains("sticker omit", lower(text))
      [] OTHER -> TRUE

\* The kind rule i assigns.
RuleKind(i, text, fmt) ==
    CASE i = 1 -> VOICE
      [] i = 2 -> VOICE
      [] i = 3 -> IF fmt = "ios" THEN VIDEO ELSE VIDEO_NOTE
      [] i = 4 -> PHOTO
      [] i = 5 -> (CASE _detect_attachment(text) = "voice" -> VOICE [] _detect_attachment(text) = "video" -> VIDEO [] _detect_attachment(text) = "photo" -> PHOTO [] _detect_attachment(text) = "sticker" -> STICKER)
      [] i = 6 -> STICKER
      [] OTHER -> TEXT

FirstRule(text) == CHOOSE i \in 1..7 : RuleMatches(i, text) /\ \A j \in 1..(i - 1) : ~RuleMatches(j, text)

\* C9: the kind returned is the kind of the first rule, in the order voice
\* phrase, view-once voice, video note, media, attachment extension, sticker
\* omit, Text, that applies to the body.
C9_FirstMatchingRuleWins == cls_pc = "done" => cls_kind = RuleKind(FirstRule(cls_text), cls_text, cls_format)

\* A classified body that holds both a voice phrase and the media placeholder: Voice.
C9_Witness ==
    /\ cls_pc = "done"
    /\ RuleMatches(1, cls_text)
    /\ RuleMatches(4, cls_text)
    /\ cls_kind = VOICE

\* C10: for every body and every dialect hint the call returns, and what it
\* returns is one of the six MessageKind members.
C10_ClassifyTotal == cls_pc = "done" => cls_kind \in MessageKind

\* A classified body under no dialect hint, with an attachment of unrecognised extension.
C10_Witness ==
    /\ cls_pc = "done"
    /\ cls_format = None
    /\ SearchAttachedTag(cls_text) = "pdf"
    /\ cls_kind \in MessageKind

\* The lower-cased extension the body's attachment carries: that of the
\* leftmost '<attached: name.ext>' tag, or without a tag that of the leftmost
\* 'name.ext (file attached)' pattern; None for a body with neither.
AttachmentExtension(text) ==
    IF SearchAttachedTag(text) # None THEN LowerToken(SearchAttachedTag(text))
    ELSE IF SearchFileAttachment(text) # None THEN LowerToken(SearchFileAttachment(text))
    ELSE None

\* The kind of a recognised extension, None for any other.
ExtensionKind(ext) ==
    CASE ext = "opus" -> VOICE
      [] ext \in {"mp4", "mov", "m4v"} -> VIDEO
      [] ext \in {"jpg", "jpeg", "png", "gif"} -> PHOTO
      [] ext \in {"webp", "sticker"} -> STICKER
      [] OTHER -> None

\* C25: for a body that carries an attachment tag or a file-attached pattern
\* and that none of the rules 1-4 (voice phrase, view-once voice, video note,
\* media placeholder) applies to, the kind is that of the lower-cased
\* extension: opus Voice; mp4, mov, m4v Video; jpg, jpeg, png, gif Photo; webp,
\* sticker Sticker; with any other extension the kind is Sticker when the body
\* contains 'sticker omit' and Text otherwise.
C25_AttachmentExtensionKind ==
    (cls_pc = "done" /\ AttachmentExtension(cls_text) # None /\ \A i \in 1..4 : ~RuleMatches(i, cls_text)) =>
        cls_kind = IF ExtensionKind(AttachmentExtension(cls_text)) # None THEN ExtensionKind(AttachmentExtension(cls_text))
                   ELSE IF StrContains("sticker omit", lower(cls_text)) THEN STICKER
                   ELSE TEXT

\* A classified body whose attachment has an upper-case extension of a video,
\* and none of the rules 1-4 applies: Video.
C25_Witness ==
    /\ cls_pc = "done"
    /\ SearchAttachedTag(cls_text) = "MP4"
    /\ \A i \in 1..4 : ~RuleMatches(i, cls_text)
    /\ cls_kind = VIDEO

\* ---------------------------------------------------------------- properties of the aggregate and the summary

\* C15: every recorded message of kind Text appends its body to the text corpus
\* and nothing else is appended: text_messages is the sequence of the Text-kind
\* bodies in the order of the record_event calls, so its length is the number of
\* Text-kind messages.
C15_CorpusIsTextBodies ==
    /\ aggregate.text_messages = TextKindBodies(events)
    /\ Len(aggregate.text_messages) = Cardinality({i \in DOMAIN events : events[i].kind = TEXT})

\* The conversation that the record_event calls build, from an empty one.
RECURSIVE Recorded(_)
Recorded(evts) ==
    IF evts = <<>> THEN Conversation("chat")
    ELSE LET e == evts[Len(evts)] IN record_event(Recorded(SubSeq(evts, 1, Len(evts) - 1)), e.sender, e.timestamp, e.text, e.kind)

RECURSIVE CorpusTokens(_)
CorpusTokens(texts) == IF texts = <<>> THEN <<>> ELSE tokenize(Head(texts)) \o CorpusTokens(Tail(texts))

Occurrences(w, toks) == Cardinality({i \in 1..Len(toks) : toks[i] = w})

FirstOccurrence(w, toks) == CHOOSE i \in 1..Len(toks) : toks[i] = w /\ \A j \in 1..(i - 1) : toks[j] # w

\* Token v ranks before token w: a higher count, or the same count and an
\* earlier first occurrence in the corpus.
RanksBefore(v, w, toks) ==
    \/ Occurrences(v, toks) > Occurrences(w, toks)
    \/ Occurrences(v, toks) = Occurrences(w, toks) /\ FirstOccurrence(v, toks) < FirstOccurrence(w, toks)

\* top is the list of the first n tokens in rank order, each with its count.
IsTopN(top, n, toks) ==
    LET distinct == {toks[i] : i \in 1..Len(toks)}
        listed == {top[i][1] : i \in 1..Len(top)}
    IN /\ Len(top) = IF n < Cardinality(distinct) THEN n ELSE Cardinality(distinct)
       /\ listed \subseteq distinct
       /\ \A i \in 1..Len(top) : top[i][2] = Occurrences(top[i][1], toks)
       /\ \A i, j \in 1..Len(top) : i < j => RanksBefore(top[i][1], top[j][1], toks)
       /\ \A w \in distinct \ listed : \A i \in 1..Len(top) : RanksBefore(top[i][1], w, toks)

\* C19: top_words of summarize(conversation, top_n) lists min(top_n, number of
\* distinct tokens) tokens with their counts, highest count first; of two tokens
\* with the same count the one that occurs first in the corpus comes first, and
\* is the one kept at the cut-off.
C19_TopWordsByCountThenFirstSeen ==
    \A k \in DOMAIN sum_stats : IsTopN(sum_stats[k].result.top_words, sum_stats[k].top_n, CorpusTokens(aggregate.text_messages))

\* The corpus holds sol once, mar twice and luz once, in that order of first
\* occurrence; with top_n = 2 the list is mar, sol: luz, which has sol's count,
\* occurs later and is alphabetically smaller, is cut off.
C19_Witness ==
    \E k \in DOMAIN sum_stats :
        /\ sum_stats[k].top_n = 2
        /\ CorpusTokens(aggregate.text_messages) = <<"sol", "mar", "mar", "luz">>
        /\ sum_stats[k].result.top_words = <<<<"mar", 2>>, <<"sol", 1>>>>

\* The share value names the person and the value.
NamesPerson(value, person, v) ==
    /\ value # NoData
    /\ Len(value) > Len(person)
    /\ SubSeq(value, 1, Len(person)) = person
    /\ \E k \in (Len(person) + 1)..Len(value) : value[k] = ToString(v)

\* The participant with the maximum value, the smallest name among equals.
MaxPerson(counter) == CHOOSE p \in DOMAIN counter : \A q \in DOMAIN counter \ {p} : counter[q] < counter[p] \/ (counter[q] = counter[p] /\ StrLess(p, q))

\* C20: for each of the five highlight categories the context names the
\* participant with the maximum value of the category's map, the smallest name
\* among those with the maximum; the highlight is 'No data' exactly when there
\* is no participant or the maximum is 0.
C20_HighlightNamesMaximum ==
    (sum_stats # <<>>) =>
        \A i \in 1..Len(category_configs) :
            LET counter == sum_stats[Len(sum_stats)].result[category_configs[i].counter]
                entry == sum_context[1].highlights[i]
            IN /\ entry.label = category_configs[i].label
               /\ IF DOMAIN counter = {} \/ counter[MaxPerson(counter)] = 0
                  THEN entry.value = NoData
                  ELSE NamesPerson(entry.value, MaxPerson(counter), counter[MaxPerson(counter)])

\* C21, for Conversation.record_event: one call changes the aggregate as one
\* finalize does, total_messages grows by 1, and the other fields are untouched.
C21_RecordEventFrame ==
    [][Len(events') # Len(events) =>
        /\ FinalizeFrame(events'[Len(events')], aggregate.participants, aggregate'.participants, aggregate.year_counts, aggregate'.year_counts, aggregate.text_messages, aggregate'.text_messages, ParticipantStats(events'[Len(events')].sender))
        /\ aggregate'.total_messages = aggregate.total_messages + 1
        /\ aggregate'.export_format = aggregate.export_format
        /\ aggregate'.chat_name = aggregate.chat_name]_vars

\* C26, for Conversation.get_participant: a record_event call removes no
\* participant and lowers none of its counters, and the participants are the
\* senders of the recorded events.
C26_AggregateOnlyGrows ==
    [][/\ DOMAIN aggregate.participants \subseteq DOMAIN aggregate'.participants
       /\ \A name \in DOMAIN aggregate.participants : \A c \in GrowingCounters \cup {"longest_text_length"} : aggregate'.participants[name][c] >= aggregate.participants[name][c]
       /\ DOMAIN aggregate'.participants = {events'[k].sender : k \in DOMAIN events'}]_vars

\* The maximal runs of letter tokens of a text, as pairs of first and last position.
LetterRuns(text) ==
    {r \in (1..Len(text)) \X (1..Len(text)) :
        /\ r[1] <= r[2]
        /\ \A k \in r[1]..r[2] : text[k] \in LetterTokens
        /\ r[1] = 1 \/ text[r[1] - 1] \notin LetterTokens
        /\ r[2] = Len(text) \/ text[r[2] + 1] \notin LetterTokens}

\* The string a sequence of tokens denotes.
RECURSIVE Concat(_)
Concat(s) == IF s = <<>> THEN "" ELSE Head(s) \o Concat(Tail(s))

\* The occurrences of the maximal letter runs of the lower-cased corpus, each
\* as <<body, position, word>>: the runs of whole tokens, and the runs inside a
\* token that is not made of letters only.
CorpusRuns(texts) ==
    UNION {LET t == lower(texts[b])
           IN {<<b, r, Concat(SubSeq(t, r[1], r[2]))>> : r \in LetterRuns(t)}
              \cup UNION {{<<b, <<k, n>>, InnerWords(t[k])[n]>> : n \in 1..Len(InnerWords(t[k]))} : k \in 1..Len(t)}
           : b \in DOMAIN texts}

RunCount(w, texts) == Cardinality({o \in CorpusRuns(texts) : o[3] = w})

\* The words that are counted: runs longer than 2 characters that are no stop-words.
CountedWords(texts) == {o[3] : o \in {c \in CorpusRuns(texts) : Len(c[3]) > 2 /\ c[3] \notin STOPWORDS}}

\* C27: the word counts summarize reports (top_words) list only lower-cased
\* maximal runs of letters of the corpus that are longer than 2 characters and
\* are no stop-words, each once and with the number of its occurrences over
\* all bodies of the corpus; when top_n does not cut the list, every such run
\* is listed.
C27_WordCountsAreRunCounts ==
    \A k \in DOMAIN sum_stats :
        LET top == sum_stats[k].result.top_words
            listed == {top[i][1] : i \in 1..Len(top)}
        IN /\ \A i \in 1..Len(top) :
                /\ Len(top[i][1]) > 2
                /\ top[i][1] \notin STOPWORDS
                /\ top[i][2] = RunCount(top[i][1], aggregate.text_messages)
           /\ listed \subseteq CountedWords(aggregate.text_messages)
           /\ Cardinality(listed) = Len(top)
           /\ sum_stats[k].top_n >= Cardinality(CountedWords(aggregate.text_messages)) => listed = CountedWords(aggregate.text_messages)

\* A corpus of two bodies with the runs sol, mar (twice, once written Mar), luz
\* (written as two adjacent tokens), the stop-words de and que and the short
\* word ok was summarized with top_n = 20: mar 2, sol 1, luz 1 and nothing else.
C27_Witness ==
    \E k \in DOMAIN sum_stats :
        /\ sum_stats[k].top_n = 20
        /\ Len(aggregate.text_messages) = 2
        /\ {"de", "que", "ok", "sol", "mar", "luz"} = {o[3] : o \in CorpusRuns(aggregate.text_messages)}
        /\ RunCount("mar", aggregate.text_messages) = 2
        /\ {sum_stats[k].result.top_words[i] : i \in 1..Len(sum_stats[k].result.top_words)} = {<<"mar", 2>>, <<"sol", 1>>, <<"luz", 1>>}

\* C32: in a Conversation built by record_event each participant's
\* message_count is the sum of their five kind counters and the number of their
\* Text messages, and the length of text_messages plus the sum of all kind
\* counters is the number of recorded messages.
C32_KindPartition ==
    /\ \A name \in DOMAIN aggregate.participants : aggregate.participants[name].message_count = KindSum(aggregate.participants[name]) + KindCount(events, name, TEXT)
    /\ Len(aggregate.text_messages) + SumOver([name \in DOMAIN aggregate.participants |-> KindSum(aggregate.participants[name])], DOMAIN aggregate.participants) = Len(events)

\* ---------------------------------------------------------------- properties of the two reconstructors

\* The messages parse finalized, as (sender, text, timestamp, format).
ParsedMessages == [i \in DOMAIN finalized |-> [sender |-> finalized[i].sender, text |-> finalized[i].text, timestamp |-> finalized[i].timestamp, format |-> finalized[i].format]]

\* The messages read_messages returned, in the same form.
ReadMessages == [i \in DOMAIN rm_messages |-> [sender |-> rm_messages[i].sender, text |-> rm_messages[i].text, timestamp |-> rm_messages[i].datetime, format |-> rm_messages[i].format]]

\* C33: when parse returned a Conversation for a file (so a line matched a
\* prefix and every matched date parsed) and read_messages returned for the
\* same file, both reconstructed the same sequence of messages: sender, body
\* text, timestamp and dialect, in the same order.
C33_ReconstructorsAgree == (pc = "returned" /\ rm_pc = "returned") => ReadMessages = ParsedMessages

\* The text without the newline it begins with, if it begins with one.
WithoutLeadingNewline(text) == IF text # <<>> /\ Head(text) = "\n" THEN Tail(text) ELSE text

\* C33, what the two do agree on: the same messages in the same order, with
\* the same sender, timestamp and dialect, and the same body except for the
\* newline that parse puts before the first continuation of an empty initial text.
C33_AgreeUpToLeadingNewline ==
    (pc = "returned" /\ rm_pc = "returned") =>
        /\ Len(rm_messages) = Len(finalized)
        /\ \A i \in DOMAIN finalized :
            /\ ReadMessages[i].sender = ParsedMessages[i].sender
            /\ ReadMessages[i].timestamp = ParsedMessages[i].timestamp
            /\ ReadMessages[i].format = ParsedMessages[i].format
            /\ ReadMessages[i].text = WithoutLeadingNewline(ParsedMessages[i].text)

\* ---------------------------------------------------------------- properties of the summary's totals

\* The senders of the recorded events.
EventSenders == {events[i].sender : i \in DOMAIN events}

\* The per-person maps of a summary.
PerPersonMaps == {"messages_by_person", "voice_by_person", "video_by_person", "video_note_by_person", "photo_by_person", "sticker_by_person", "char_by_person", "longest_text_by_person", "longest_text_content"}

\* The summary is consistent in itself and with the events it was built from.
ConsistentSummary(r) ==
    /\ r.total_messages = SumValues(r.messages_by_person)
    /\ r.total_messages = SumValues(r.messages_by_year)
    /\ r.total_messages = Len(events)
    /\ r.voice_total = SumValues(r.voice_by_person)
    /\ r.video_total = SumValues(r.video_by_person)
    /\ r.video_note_total = SumValues(r.video_note_by_person)
    /\ r.photo_total = SumValues(r.photo_by_person)
    /\ r.sticker_total = SumValues(r.sticker_by_person)
    /\ r.total_characters = SumValues(r.char_by_person)
    /\ \A m \in PerPersonMaps : DOMAIN r[m] = EventSenders
    /\ DOMAIN aggregate.participants = EventSenders
    /\ \A name \in EventSenders :
        /\ r.messages_by_person[name] = Cardinality({i \in DOMAIN events : events[i].sender = name})
        /\ r.voice_by_person[name] = KindCount(events, name, VOICE)
        /\ r.video_by_person[name] = KindCount(events, name, VIDEO)
        /\ r.video_note_by_person[name] = KindCount(events, name, VIDEO_NOTE)
        /\ r.photo_by_person[name] = KindCount(events, name, PHOTO)
        /\ r.sticker_by_person[name] = KindCount(events, name, STICKER)
        /\ r.char_by_person[name] = SumTextLen(events, name)

\* C36: every summary of a Conversation built by record_event calls has
\* total_messages equal to the sum of messages_by_person and to the sum of
\* messages_by_year (the number of calls); each of the five kind totals is the
\* sum of its per-person map, whose entries count the sender's events of that
\* kind; total_characters is the sum of char_by_person; and every per-person
\* map has exactly the senders as keys.
C36_SummaryTotalsConsistent == \A k \in DOMAIN sum_stats : sum_stats[k].result.raised = None /\ ConsistentSummary(sum_stats[k].result)

\* A summary of two events of two senders in two different years, one a Text
\* with characters and one of another kind.
C36_Witness ==
    /\ sum_pc = "summarized"
    /\ Len(events) = 2
    /\ Cardinality(EventSenders) = 2
    /\ Cardinality(DOMAIN sum_stats[1].result.messages_by_year) = 2
    /\ sum_stats[1].result.total_messages = 2
    /\ sum_stats[1].result.total_characters > 0
    /\ \E i \in 1..2 : events[i].kind # TEXT
    /\ sum_stats[1].result.voice_total + sum_stats[1].result.video_total + sum_stats[1].result.video_note_total + sum_stats[1].result.photo_total + sum_stats[1].result.sticker_total = 1

====
